---- MODULE Spec2Model ----
(***************************************************************************)
(* Expression language of logic/src: Lexer (lexer.ts), Parser (parser.ts), *)
(* Evaluator (evaluator.ts) and the entry point evaluate (index.ts).       *)
(* parser.ts also holds a Parser that is constructed from a Lexer, and     *)
(* lexer.ts the Lexer of NUMBER tokens it reads from: they follow the      *)
(* Parser of the input text.                                               *)
(*                                                                         *)
(* A text is a sequence of one-character strings.  Offsets are 0-based as  *)
(* in the source: the character at offset p is text[p + 1].                *)
(***************************************************************************)
EXTENDS Integers, Sequences, FiniteSets, TLC

RECURSIVE SkipWhitespace(_, _)
RECURSIVE ScanInteger(_, _, _)
RECURSIVE ScanIdentifier(_, _, _)
RECURSIVE DecimalValue(_)
RECURSIVE ShiftRight(_, _)
RECURSIVE ShiftRightMore(_, _)
RECURSIVE ColumnSum(_, _, _, _, _)
RECURSIVE LimbFrom(_, _, _)
RECURSIVE ShortDivide(_, _, _, _)
RECURSIVE LongDivide(_, _, _, _)
RECURSIVE LongStep(_, _, _, _)
RECURSIVE LongTake(_, _, _, _, _)
RECURSIVE ScaleUp(_, _)
RECURSIVE DecimalGroups(_, _)
RECURSIVE ShortestCut(_, _)
RECURSIVE Pow10(_)
RECURSIVE DecimalChars(_)
RECURSIVE Gcd(_, _)
RECURSIVE Factor(_, _)
RECURSIVE TermLoop(_, _, _)
RECURSIVE ExprLoop(_, _, _)
RECURSIVE ArgumentLoop(_, _, _)
RECURSIVE Evaluate(_, _)
RECURSIVE EvaluateArguments(_, _, _)
RECURSIVE TokenizeFrom(_, _, _)
RECURSIVE Term(_, _)
RECURSIVE Expr(_, _)
RECURSIVE LexerParserFactor(_, _)
RECURSIVE LexerParserTermLoop(_, _, _)
RECURSIVE LexerParserExprLoop(_, _, _)
RECURSIVE LexerParserTerm(_, _)
RECURSIVE LexerParserExpr(_, _)

(***************************************************************************)
(* Bounds of the model.                                                    *)
(***************************************************************************)
MaxLen == 4
MaxSigns == 4
MaxOperands == 4
MaxEofCalls == 2
MaxInt == 11
MaxPairLen == 2

(***************************************************************************)
(* Character classes of the lexer's regular expressions.  A character is a *)
(* string: the character itself, or, for the code units U+2000 to U+3000,  *)
(* which a string of this language cannot hold, its name ("U+2000").       *)
(***************************************************************************)
\* /\s/: tab, line feed, vertical tab, form feed, carriage return, space,
\* no-break space, ogham space mark, the spaces U+2000 to U+200A, line and
\* paragraph separator, narrow no-break space, medium mathematical space,
\* ideographic space and the byte order mark.
Whitespace ==
  {"\t", "\n", "", "\f", "\r", " ", " ", " ",
   "U+2000", "U+2001", "U+2002", "U+2003", "U+2004", "U+2005", "U+2006",
   "U+2007", "U+2008", "U+2009", "U+200A", "U+2028", "U+2029", "U+202F",
   "U+205F", "U+3000", "﻿"}

Digits == {"0", "1", "2", "3", "4", "5", "6", "7", "8", "9"}

Letters ==
  {"a", "b", "c", "d", "e", "f", "g", "h", "i", "j", "k", "l", "m",
   "n", "o", "p", "q", "r", "s", "t", "u", "v", "w", "x", "y", "z",
   "A", "B", "C", "D", "E", "F", "G", "H", "I", "J", "K", "L", "M",
   "N", "O", "P", "Q", "R", "S", "T", "U", "V", "W", "X", "Y", "Z"}

IdentifierStart == Letters \cup {"_"}

IdentifierPart == Letters \cup Digits \cup {"_"}

DigitValue(c) ==
  CASE c = "0" -> 0 [] c = "1" -> 1 [] c = "2" -> 2 [] c = "3" -> 3
    [] c = "4" -> 4 [] c = "5" -> 5 [] c = "6" -> 6 [] c = "7" -> 7
    [] c = "8" -> 8 [] c = "9" -> 9

(***************************************************************************)
(* Errors.  Every throw of the source is `new Error(message)`: one class,  *)
(* told apart only by the message.  `kind` names the message template and  *)
(* the other fields are the values interpolated into it.                   *)
(***************************************************************************)
NoError == [class |-> "none"]

\* The lexer's error with the offset counted from one.
InvalidCharacterOneBased(pos, ch) ==
  [class |-> "Error", kind |-> "Invalid character at position",
   position |-> pos + 1, char |-> ch]

InvalidCharacter(pos, ch) ==
  [class |-> "Error", kind |-> "Invalid character at position",
   position |-> pos, char |-> ch]

ExpectedToken(expected, actual, pos) ==
  [class |-> "Error", kind |-> "Expected token but got",
   expected |-> expected, actual |-> actual, position |-> pos]

UnexpectedIdentifier(pos, name) ==
  [class |-> "Error", kind |-> "variables are not supported",
   position |-> pos, name |-> name]

UnexpectedToken(pos, type) ==
  [class |-> "Error", kind |-> "Unexpected token at position",
   position |-> pos, actual |-> type]

DivisionByZero == [class |-> "Error", kind |-> "Division by zero"]

UnknownFunction(name) ==
  [class |-> "Error", kind |-> "Unknown function", name |-> name]

ErrorCallingFunction(name, cause) ==
  [class |-> "Error", kind |-> "Error calling function",
   name |-> name, cause |-> cause]

UnknownNodeType(type) ==
  [class |-> "Error", kind |-> "Unknown node type", type |-> type]

UnknownOperator(operator) ==
  [class |-> "Error", kind |-> "Unknown operator", operator |-> operator]

\* The errors of the Lexer of NUMBER tokens and of the Parser constructed
\* from a Lexer: their messages hold no offset.
InvalidCharacterOf(ch) ==
  [class |-> "Error", kind |-> "Invalid character", char |-> ch]

ExpectedTokenGot(expected, actual) ==
  [class |-> "Error", kind |-> "Expected token, got",
   expected |-> expected, actual |-> actual]

UnexpectedTokenOf(type) ==
  [class |-> "Error", kind |-> "Unexpected token", actual |-> type]

ExpectedEndOfExpression ==
  [class |-> "Error", kind |-> "Expected end of expression"]

Failed(e) == e.class # "none"

(***************************************************************************)
(* Lexer                                                                   *)
(***************************************************************************)
Token(type, value, position) ==
  [type |-> type, value |-> value, position |-> position]

\* this.currentChar: the character at the cursor, or null past the end.
CurrentChar(text, pos) == IF pos < Len(text) THEN text[pos + 1] ELSE "null"

AtEnd(text, pos) == pos >= Len(text)

\* SkipWhitespace that skips one whitespace character at most.
SkipWhitespaceOnce(text, pos) ==
  IF ~AtEnd(text, pos) /\ CurrentChar(text, pos) \in Whitespace
  THEN pos + 1
  ELSE pos

\* skipWhitespace: the cursor after the whitespace run that starts at pos.
SkipWhitespace(text, pos) ==
  IF ~AtEnd(text, pos) /\ CurrentChar(text, pos) \in Whitespace
  THEN SkipWhitespace(text, pos + 1)
  ELSE pos

(***************************************************************************)
(* Naturals of any size: the limbs of a natural in base 2^14, the least    *)
(* significant first, the most significant other than zero.                *)
(***************************************************************************)
LimbBits == 14

PowersOfTwo ==
  <<1, 2, 4, 8, 16, 32, 64, 128, 256, 512, 1024, 2048, 4096, 8192, 16384,
    32768, 65536, 131072, 262144, 524288, 1048576, 2097152, 4194304,
    8388608, 16777216, 33554432, 67108864, 134217728, 268435456, 536870912,
    1073741824>>

Pow2(k) == PowersOfTwo[k + 1]

Base == Pow2(LimbBits)

Max(a, b) == IF a >= b THEN a ELSE b

Min(a, b) == IF a <= b THEN a ELSE b

Abs(i) == IF i < 0 THEN -i ELSE i

Gcd(a, b) == IF b = 0 THEN a ELSE Gcd(b, a % b)

\* A sequence given by a function on 1..n, its elements computed once.
Tuple(f) == SubSeq(f, 1, Len(f))

\* A sequence without the zeros at its end.
WithoutZeros(x) ==
  SubSeq(x, 1, Cardinality({i \in 1..Len(x) : \E j \in i..Len(x) : x[j] # 0}))

\* Limbs without the zeros at the most significant end.
Trim(x) == WithoutZeros(Tuple(x))

LimbAt(x, i) == IF i >= 1 /\ i <= Len(x) THEN x[i] ELSE 0

\* The limbs of an integer of TLC, 0 <= i < 2^31.
Limbs(i) == Trim(<<i % Base, (i \div Base) % Base, i \div (Base * Base)>>)

\* The integer of at most three limbs, below 2^31.
IntOf(x) == LimbAt(x, 1) + Base * LimbAt(x, 2) + Base * Base * LimbAt(x, 3)

\* The number of bits of a limb other than zero.
Width(limb) == CHOOSE b \in 1..LimbBits : Pow2(b - 1) <= limb /\ limb < Pow2(b)

BitLength(x) ==
  IF Len(x) = 0 THEN 0 ELSE LimbBits * (Len(x) - 1) + Width(x[Len(x)])

\* The bit of weight 2^i.
BitAt(x, i) == (LimbAt(x, (i \div LimbBits) + 1) \div Pow2((i % LimbBits))) % 2

\* A bit of weight below 2^i is set.
AnyBitBelow(x, i) ==
  \/ \E j \in 1..Min((i \div LimbBits), Len(x)) : x[j] # 0
  \/ LimbAt(x, (i \div LimbBits) + 1) % Pow2((i % LimbBits)) # 0

\* The number of zero bits at the least significant end of a limb other
\* than zero.
LimbTrailingZeros(limb) ==
  CHOOSE b \in 0..(LimbBits - 1) : limb % Pow2(b + 1) # 0 /\ limb % Pow2(b) = 0

\* The first limb other than zero.
LowestLimb(x) ==
  CHOOSE j \in 1..Len(x) : x[j] # 0 /\ \A k \in 1..(j - 1) : x[k] = 0

\* The number of zero bits at the least significant end of a natural other
\* than zero.
TrailingZeros(x) ==
  LimbBits * (LowestLimb(x) - 1) + LimbTrailingZeros(x[LowestLimb(x)])

\* x \div 2^n
ShiftRightBits(x, n) ==
  IF Len(x) = 0 \/ n = 0 THEN x
  ELSE Trim([j \in 1..Max(Len(x) - (n \div LimbBits), 0) |->
          LimbAt(x, j + (n \div LimbBits)) \div Pow2((n % LimbBits))
          + (LimbAt(x, j + (n \div LimbBits) + 1) % Pow2((n % LimbBits)))
            * Pow2(LimbBits - (n % LimbBits))])

\* x * 2^n
ShiftLeftBits(x, n) ==
  IF Len(x) = 0 \/ n = 0 THEN x
  ELSE Trim([j \in 1..(Len(x) + (n \div LimbBits) + 1) |->
          (LimbAt(x, j - (n \div LimbBits)) % Pow2(LimbBits - (n % LimbBits)))
            * Pow2((n % LimbBits))
          + LimbAt(x, j - (n \div LimbBits) - 1) \div Pow2(LimbBits - (n % LimbBits))])

\* Columns, each below 2^31, with what is above the limb of each carried
\* to the next: one column more.
CarriedOnce(cols) ==
  Tuple([i \in 1..(Len(cols) + 1) |->
           (LimbAt(cols, i) % Base) + (LimbAt(cols, i - 1) \div Base)])

\* A carry of one enters column i of columns below 2 * Base - 1: a column
\* below it holds Base or more, and the ones between hold Base - 1.
CarryInto(cols, i) ==
  \E j \in 1..(i - 1) :
    cols[j] >= Base /\ \A k \in (j + 1)..(i - 1) : cols[k] = Base - 1

\* The limbs of columns below 2 * Base - 1.
Rippled(cols) ==
  Trim([i \in 1..(Len(cols) + 1) |->
          (LimbAt(cols, i) + (IF CarryInto(cols, i) THEN 1 ELSE 0)) % Base])

\* The limbs of columns below 2^31.
Carried(cols) == Rippled(CarriedOnce(CarriedOnce(Tuple(cols))))

AddColumns(x, y) ==
  Tuple([i \in 1..Max(Len(x), Len(y)) |-> LimbAt(x, i) + LimbAt(y, i)])

AddBig(x, y) ==
  IF Len(x) = 0 THEN y
  ELSE IF Len(y) = 0 THEN x
  ELSE Rippled(AddColumns(x, y))

\* A borrow of one enters column i of the differences of limbs: the last
\* column below it other than zero is negative.
BorrowInto(cols, i) ==
  \E j \in 1..(i - 1) :
    cols[j] < 0 /\ \A k \in (j + 1)..(i - 1) : cols[k] = 0

SubtractColumns(x, y) ==
  Tuple([i \in 1..Max(Len(x), Len(y)) |-> LimbAt(x, i) - LimbAt(y, i)])

Borrowed(cols) ==
  Trim([i \in 1..Len(cols) |->
          (cols[i] - (IF BorrowInto(cols, i) THEN 1 ELSE 0)) % Base])

\* x - y for x >= y
SubtractBig(x, y) ==
  IF Len(x) = 0 \/ Len(y) = 0 THEN x ELSE Borrowed(SubtractColumns(x, y))

\* -1, 0, 1 as x is less than, equal to, greater than y.
CompareBig(x, y) ==
  IF Len(x) # Len(y) THEN (IF Len(x) < Len(y) THEN -1 ELSE 1)
  ELSE IF x = y THEN 0
  ELSE IF \E i \in 1..Len(x) :
            x[i] > y[i] /\ \A j \in (i + 1)..Len(x) : x[j] = y[j]
       THEN 1 ELSE -1

\* The part of column k of the products of the limbs lo to hi of x: the
\* low halves of the products of weight k, the high halves of those of
\* weight k - 1.
ColumnSum(x, y, k, lo, hi) ==
  IF lo > hi THEN 0
  ELSE IF lo = hi
  THEN ((x[lo] * LimbAt(y, k - lo + 1)) % Base)
       + ((x[lo] * LimbAt(y, k - lo)) \div Base)
  ELSE ColumnSum(x, y, k, lo, (lo + hi) \div 2)
       + ColumnSum(x, y, k, (lo + hi) \div 2 + 1, hi)

\* x * y
MultiplyBig(x, y) ==
  IF Len(x) = 0 \/ Len(y) = 0 THEN <<>>
  ELSE Carried([k \in 1..(Len(x) + Len(y)) |->
                  ColumnSum(x, y, k, Max(1, k - Len(y)), Min(Len(x), k))])

\* The bit t of limb j of bits, the least significant first, weighted.
Weighted(bits, j, t) ==
  IF LimbBits * (j - 1) + t + 1 <= Len(bits)
  THEN bits[LimbBits * (j - 1) + t + 1] * Pow2(t) ELSE 0

\* The bits t and above of limb j of bits, weighted.
LimbFrom(bits, j, t) ==
  IF t = LimbBits THEN 0
  ELSE Weighted(bits, j, t) + LimbFrom(bits, j, t + 1)

\* The limbs of bits, the least significant first.
FromBits(bits) ==
  Trim([j \in 1..((Len(bits) + LimbBits - 1) \div LimbBits) |->
          LimbFrom(bits, j, 0)])

\* A division of the limbs below a limb whose quotient is digit: the limbs
\* of the quotient, the most significant first, and the remainder.
DivideStep(digit, rest) == [q |-> <<digit>> \o rest.q, r |-> rest.r]

\* The limbs i down to 1 of x divided by the limb d, r being the remainder
\* of the limbs above them.
ShortDivide(x, d, i, r) ==
  IF i = 0 THEN [q |-> <<>>, r |-> r]
  ELSE DivideStep((r * Base + x[i]) \div d,
                  ShortDivide(x, d, i - 1, (r * Base + x[i]) % d))

Reversed(s) == [i \in 1..Len(s) |-> s[Len(s) - i + 1]]

\* The quotient of r by y is at most this: r below y * Base, the most
\* significant limb of y at least Base \div 2.
Estimate(r, y) ==
  Min(Base - 1,
      (LimbAt(r, Len(y) + 1) * Base + LimbAt(r, Len(y))) \div y[Len(y)])

\* y times the limb c
ScaleBig(c, y) == Carried([i \in 1..Len(y) |-> c * y[i]])

\* The multiples of y by the estimate and by the two limbs below it, the
\* largest first.
Multiples(y, estimate) ==
  Tuple([k \in 1..3 |->
           [digit |-> Max(estimate + 1 - k, 0),
            product |-> ScaleBig(Max(estimate + 1 - k, 0), y)]])

\* The largest of the multiples that is at most r: the quotient of r by y
\* is at most two below the estimate.
NearestMultiple(r, multiples) ==
  multiples[CHOOSE k \in 1..3 :
              /\ CompareBig(multiples[k].product, r) <= 0
              /\ \A i \in 1..(k - 1) : CompareBig(multiples[i].product, r) > 0]

LongTake(x, y, i, r, near) ==
  DivideStep(near.digit, LongDivide(x, y, i - 1, SubtractBig(r, near.product)))

LongStep(x, y, i, r) ==
  LongTake(x, y, i, r, NearestMultiple(r, Multiples(y, Estimate(r, y))))

\* Long division limb by limb, as ShortDivide, r the limbs of the remainder.
LongDivide(x, y, i, r) ==
  IF i = 0 THEN [q |-> <<>>, r |-> r]
  ELSE LongStep(x, y, i, Trim(<<x[i]>> \o r))

LongQuotient(d) == [q |-> Trim(Reversed(d.q)), zero |-> d.r = <<>>]

\* x \div y for x >= y, y of two limbs or more, the most significant of them
\* at least Base \div 2: the limbs of x above those that give a quotient
\* are the first remainder.
LongDivideAll(x, y) ==
  LongQuotient(LongDivide(x, y, Len(x) - Len(y) + 1,
                          SubSeq(x, Len(x) - Len(y) + 2, Len(x))))

ShortQuotient(d) == [q |-> Trim(Reversed(d.q)), zero |-> d.r = 0]

\* x \div y for x >= y, y of two limbs or more: both are shifted until the
\* most significant limb of y is at least Base \div 2.
LongDivideShifted(x, y, shift) ==
  LongDivideAll(ShiftLeftBits(x, shift), ShiftLeftBits(y, shift))

\* x \div y for y other than zero, and whether x is a multiple of y.
DivideBig(x, y) ==
  IF CompareBig(x, y) < 0 THEN [q |-> <<>>, zero |-> Len(x) = 0]
  ELSE IF Len(y) = 1 THEN ShortQuotient(ShortDivide(x, y[1], Len(x), 0))
  ELSE LongDivideShifted(x, y, LimbBits - Width(y[Len(y)]))

(***************************************************************************)
(* JavaScript numbers: IEEE 754 doubles.  A double is the fraction n / d   *)
(* of integers below 2^30, d a power of two, where it is one (negZero is   *)
(* the sign of a zero); significand * 2^exponent, the significand odd,     *)
(* where it is not; or NaN, Infinity, -Infinity.                           *)
(***************************************************************************)
NaN == [t |-> "number", name |-> "NaN"]

Infinite(negative) ==
  [t |-> "number", name |-> IF negative THEN "-Infinity" ELSE "Infinity"]

Zero(negative) == [t |-> "number", n |-> 0, d |-> 1, negZero |-> negative]

\* The double n / d, for a fraction that is a double of the first form once
\* it is reduced.
Dyadic(n, d, negZero) ==
  [t |-> "number",
   n |-> (IF d < 0 THEN -1 ELSE 1) * (n \div Gcd(Abs(n), Abs(d))),
   d |-> Abs(d) \div Gcd(Abs(n), Abs(d)),
   negZero |-> (n = 0 /\ negZero)]

IsNumber(v) == v.t = "number"

IsSmall(v) == "n" \in DOMAIN v

IsLarge(v) == "significand" \in DOMAIN v

IsNaN(v) == "name" \in DOMAIN v /\ v.name = "NaN"

IsInfinite(v) == "name" \in DOMAIN v /\ v.name # "NaN"

IsZero(v) == IsNumber(v) /\ IsSmall(v) /\ v.n = 0

IsInteger(v) ==
  IsNumber(v) /\ (\/ IsSmall(v) /\ v.d = 1
                  \/ IsLarge(v) /\ v.exponent >= 0)

SignBit(v) ==
  /\ IsNumber(v)
  /\ \/ IsSmall(v) /\ (v.n < 0 \/ v.negZero)
     \/ IsLarge(v) /\ v.negative
     \/ "name" \in DOMAIN v /\ v.name = "-Infinity"

\* x === y on numbers
NumEq(v, w) ==
  /\ IsNumber(v) /\ IsNumber(w) /\ ~IsNaN(v) /\ ~IsNaN(w)
  /\ v = w \/ (IsZero(v) /\ IsZero(w))

Log2(d) == CHOOSE k \in 0..30 : Pow2(k) = d

IsPowerOfTwo(d) == \E k \in 0..30 : Pow2(k) = d

\* Sign, significand and exponent of a number other than zero, NaN and the
\* infinities.
Parts(v) ==
  IF IsSmall(v)
  THEN [negative |-> v.n < 0, m |-> Limbs(Abs(v.n)), e |-> -Log2(v.d)]
  ELSE [negative |-> v.negative, m |-> v.significand, e |-> v.exponent]

\* The double m * 2^e, m odd, of at most 53 bits and in the range of the
\* doubles.
Canonical(negative, m, e) ==
  IF BitLength(m) + Max(e, 0) <= 30 /\ e >= -30
  THEN [t |-> "number",
        n |-> (IF negative THEN -1 ELSE 1) * IntOf(m) * Pow2(Max(e, 0)),
        d |-> Pow2(Max(-e, 0)), negZero |-> FALSE]
  ELSE [t |-> "number", negative |-> negative, significand |-> m,
        exponent |-> e]

\* The double m * 2^e for m other than zero, zeros of its least significant
\* bits being zero.
ExactOdd(negative, m, e, zeros) ==
  Canonical(negative, ShiftRightBits(m, zeros), e + zeros)

\* The double m * 2^e for m of at most 53 bits and e >= -1074.
Exact(negative, m, e) ==
  IF Len(m) = 0 THEN Zero(negative)
  ELSE IF e + BitLength(m) > 1024 THEN Infinite(negative)
  ELSE ExactOdd(negative, m, e, TrailingZeros(m))

\* The number of zero bits at the least significant end of an integer i > 0.
IntTrailingZeros(i) ==
  CHOOSE k \in 0..30 : i % Pow2(k) = 0 /\ (i \div Pow2(k)) % 2 = 1

\* The number an integer i is.
Num(i) ==
  IF -Pow2(30) < i /\ i < Pow2(30)
  THEN [t |-> "number", n |-> i, d |-> 1, negZero |-> FALSE]
  ELSE [t |-> "number", negative |-> i < 0,
        significand |-> Limbs(Abs(i) \div Pow2(IntTrailingZeros(Abs(i)))),
        exponent |-> IntTrailingZeros(Abs(i))]

\* m without its drop least significant bits is raised by one to be the
\* nearest: more than half is dropped, or half and the bit above is set.
RoundsUp(m, drop) ==
  /\ BitAt(m, drop - 1) = 1
  /\ AnyBitBelow(m, drop - 1) \/ BitAt(m, drop) = 1

\* m * 2^e without its drop least significant bits, rounded to the nearest,
\* a tie to the even one.
RoundedAt(negative, m, e, drop) ==
  Exact(negative,
        IF drop <= 0 THEN m
        ELSE AddBig(ShiftRightBits(m, drop),
                    IF RoundsUp(m, drop) THEN <<1>> ELSE <<>>),
        e + Max(drop, 0))

\* The double nearest to m * 2^e: 53 bits of significand, fewer below
\* 2^-1022, Infinity from 2^1024 on.
Rounded(negative, m, e) ==
  IF Len(m) = 0 THEN Zero(negative)
  ELSE RoundedAt(negative, m, e, Max(BitLength(m) - 53, -1074 - e))

(***************************************************************************)
(* parseInt(numStr, 10).  Its result is a JavaScript number, the double    *)
(* nearest to the integer the digits denote.                               *)
(***************************************************************************)
DigitChar(d) ==
  CASE d = 0 -> "0" [] d = 1 -> "1" [] d = 2 -> "2" [] d = 3 -> "3"
    [] d = 4 -> "4" [] d = 5 -> "5" [] d = 6 -> "6" [] d = 7 -> "7"
    [] d = 8 -> "8" [] d = 9 -> "9"

\* The digits of at most this many significant digits denote an integer
\* below 2^30.
SmallDigits == 9

\* A string of digits without its leading zeros.
Significant(s) ==
  SubSeq(s, Cardinality({i \in 1..Len(s) : \A j \in 1..i : s[j] = "0"}) + 1,
         Len(s))

\* The integer a string of digits denotes.
DecimalValue(s) ==
  IF Len(s) = 0 THEN 0
  ELSE 10 * DecimalValue(SubSeq(s, 1, Len(s) - 1)) + DigitValue(s[Len(s)])

\* Half of a decimal number (its digits, most significant first), rounded
\* down, in as many digits.
Half(d) ==
  SubSeq([i \in 1..Len(d) |->
            (d[i] + (IF i > 1 /\ d[i - 1] % 2 = 1 THEN 10 ELSE 0)) \div 2],
         1, Len(d))

\* The low bits a of a decimal number followed by the bits b after them.
JoinBits(a, b) == [bits |-> a.bits \o b.bits, rest |-> b.rest]

\* The low bits a of a decimal number and the k bits after them.
ShiftRightMore(a, k) == JoinBits(a, ShiftRight(a.rest, k))

\* The k low bits of a decimal number, lowest first, and the rest of it.
ShiftRight(d, k) ==
  IF Len(d) = 0 \/ k = 0 THEN [bits |-> <<>>, rest |-> d]
  ELSE IF k = 1 THEN [bits |-> <<d[Len(d)] % 2>>, rest |-> Half(d)]
  ELSE ShiftRightMore(ShiftRight(d, k \div 2), k - k \div 2)

\* The bits of the integer the digits s denote, lowest first.
BitsOf(s) ==
  ShiftRight([i \in 1..Len(s) |-> DigitValue(s[i])], (10 * Len(s)) \div 3 + 1).bits

\* The double nearest to the integer that the digits s (no leading zero,
\* not empty) denote: the integer rounded to a significand of 53 bits, a
\* tie to the even one, and Infinity from 2^1024 on.
NearestDouble(s) == Rounded(FALSE, FromBits(BitsOf(s)), 0)

\* parseInt(numStr, 10) on a string of decimal digits.
DigitsValue(s) ==
  IF Len(s) = 0 THEN NaN
  ELSE IF Len(Significant(s)) <= SmallDigits
  THEN Num(DecimalValue(Significant(s)))
  ELSE NearestDouble(Significant(s))

\* The loop of parseInteger: numStr collected so far, cursor at pos.
ScanInteger(text, pos, numStr) ==
  IF ~AtEnd(text, pos) /\ CurrentChar(text, pos) \in Digits
  THEN ScanInteger(text, pos + 1, Append(numStr, CurrentChar(text, pos)))
  ELSE [value |-> DigitsValue(numStr), pos |-> pos]

\* parseInteger that reads one digit.
ParseIntegerOneDigit(text, pos) ==
  [value |-> Num(DigitValue(CurrentChar(text, pos))), pos |-> pos + 1]

ParseInteger(text, pos) == ScanInteger(text, pos, <<>>)

\* The loop of parseIdentifier.
ScanIdentifier(text, pos, identifier) ==
  IF ~AtEnd(text, pos) /\ CurrentChar(text, pos) \in IdentifierPart
  THEN ScanIdentifier(text, pos + 1, Append(identifier, CurrentChar(text, pos)))
  ELSE [value |-> identifier, pos |-> pos]

\* parseIdentifier that leaves the cursor on the last character of a longer
\* identifier.
ParseIdentifierSteppingBack(text, pos) ==
  LET Scanned(r) ==
        [value |-> r.value, pos |-> IF r.pos - pos > 1 THEN r.pos - 1 ELSE r.pos]
  IN  Scanned(ScanIdentifier(text, pos, <<>>))

ParseIdentifier(text, pos) == ScanIdentifier(text, pos, <<>>)

\* The switch of getNextToken: the token kind of a punctuation character.
PunctuationType(c) ==
  CASE c = "+" -> "PLUS"
    [] c = "-" -> "MINUS"
    [] c = "*" -> "MUL"
    [] c = "/" -> "DIV"
    [] c = "(" -> "LPAREN"
    [] c = ")" -> "RPAREN"
    [] c = "," -> "COMMA"
    [] OTHER -> "none"

\* getNextToken with a cursor that moves on when the end of the text is
\* reported.
ScanTokenEofAdvances(text, pos, c) ==
  LET Integer(r) ==
        [token |-> Token("INTEGER", r.value, pos), pos |-> r.pos,
         error |-> NoError]
      Identifier(r) ==
        [token |-> Token("IDENTIFIER", r.value, pos), pos |-> r.pos,
         error |-> NoError]
      Punctuation(type) ==
        IF type # "none"
        THEN [token |-> Token(type, c, pos), pos |-> pos + 1, error |-> NoError]
        ELSE [token |-> Token("none", "", pos), pos |-> pos,
              error |-> InvalidCharacter(pos, c)]
  IN  IF c = "null"
      THEN [token |-> Token("EOF", "", pos), pos |-> pos + 1,
            error |-> NoError]
      ELSE IF c \in Digits THEN Integer(ParseInteger(text, pos))
      ELSE IF c \in IdentifierStart THEN Identifier(ParseIdentifier(text, pos))
      ELSE Punctuation(PunctuationType(c))

\* The body of getNextToken's loop once the whitespace is skipped: cursor at
\* pos, on the character c.
ScanToken(text, pos, c) ==
  LET Integer(r) ==
        [token |-> Token("INTEGER", r.value, pos), pos |-> r.pos,
         error |-> NoError]
      Identifier(r) ==
        [token |-> Token("IDENTIFIER", r.value, pos), pos |-> r.pos,
         error |-> NoError]
      Punctuation(type) ==
        IF type # "none"
        THEN [token |-> Token(type, c, pos), pos |-> pos + 1, error |-> NoError]
        ELSE [token |-> Token("none", "", pos), pos |-> pos,
              error |-> InvalidCharacter(pos, c)]
  IN  IF c = "null"
      THEN [token |-> Token("EOF", "", pos), pos |-> pos, error |-> NoError]
      ELSE IF c \in Digits THEN Integer(ParseInteger(text, pos))
      ELSE IF c \in IdentifierStart THEN Identifier(ParseIdentifier(text, pos))
      ELSE Punctuation(PunctuationType(c))

\* The character at cursor pos, for the scan that starts there.
ScanTokenAt(text, pos) == ScanToken(text, pos, CurrentChar(text, pos))

\* getNextToken from cursor pos0: the token returned and the new cursor, or
\* the error thrown (the cursor then rests on the offending character).
GetNextToken(text, pos0) == ScanTokenAt(text, SkipWhitespace(text, pos0))

\* The loop of tokenize, returning at EOF without pushing it.
TokenizeStepEofDropped(text, tokens, r) ==
  IF Failed(r.error)
  THEN [tokens |-> tokens, pos |-> r.pos, error |-> r.error]
  ELSE IF r.token.type = "EOF"
  THEN [tokens |-> tokens, pos |-> r.pos, error |-> NoError]
  ELSE TokenizeFrom(text, r.pos, Append(tokens, r.token))

\* The loop of tokenize after a getNextToken call returned or threw r.
TokenizeStep(text, tokens, r) ==
  IF Failed(r.error)
  THEN [tokens |-> tokens, pos |-> r.pos, error |-> r.error]
  ELSE IF r.token.type = "EOF"
  THEN [tokens |-> Append(tokens, r.token), pos |-> r.pos, error |-> NoError]
  ELSE TokenizeFrom(text, r.pos, Append(tokens, r.token))

\* tokenize: the tokens from cursor pos on, up to and including EOF.
TokenizeFrom(text, pos, tokens) ==
  TokenizeStep(text, tokens, GetNextToken(text, pos))

Tokenize(text, pos) == TokenizeFrom(text, pos, <<>>)

(***************************************************************************)
(* AST (ast.ts)                                                            *)
(***************************************************************************)
NoNode == [type |-> "none"]

createIntegerNode(value) == [type |-> "Integer", value |-> value]

createBinaryOpNode(operator, left, right) ==
  [type |-> "BinaryOp", operator |-> operator, left |-> left, right |-> right]

createUnaryOpNode(operator, operand) ==
  [type |-> "UnaryOp", operator |-> operator, operand |-> operand]

createFunctionCallNode(name, args) ==
  [type |-> "FunctionCall", name |-> name, arguments |-> args]

(***************************************************************************)
(* Parser.  A parser state p holds the cursor of the parser's own lexer    *)
(* (pos), the current token, and the error thrown so far (NoError while    *)
(* none was).  A parsing function returns the state it leaves and the node *)
(* it built; once an error is thrown every caller returns with it.         *)
(***************************************************************************)
Ok(p, node) == [p |-> p, node |-> node]

Throw(p, e) == [p |-> [p EXCEPT !.error = e], node |-> NoNode]

\* this.lexer of a parser on the input text, a parameter lexer of the parsing
\* functions: what getNextToken returns with the cursor at pos.
LexerOn(text) == [pos \in 0..(Len(text) + 1) |-> GetNextToken(text, pos)]

\* A Parser that reads all tokens of the input when it is constructed.
NewParserTokenizing(text) ==
  LET First(all, r) ==
        [pos |-> r.pos, currentToken |-> r.token,
         error |-> IF Failed(all.error) THEN all.error ELSE r.error]
  IN  First(Tokenize(text, 0), GetNextToken(text, 0))

\* new Parser(input): a lexer on the input, and its first token.
NewParser(text) ==
  LET First(r) == [pos |-> r.pos, currentToken |-> r.token, error |-> r.error]
  IN  First(GetNextToken(text, 0))

\* eat(tokenType) that takes the next token whatever the current one is.
EatUnchecked(lexer, p, tokenType) ==
  LET Advanced(r) ==
        IF Failed(r.error)
        THEN [p EXCEPT !.pos = r.pos, !.error = r.error]
        ELSE [p EXCEPT !.pos = r.pos, !.currentToken = r.token]
  IN  Advanced(lexer[p.pos])

\* eat(tokenType)
Eat(lexer, p, tokenType) ==
  LET Advanced(r) ==
        IF Failed(r.error)
        THEN [p EXCEPT !.pos = r.pos, !.error = r.error]
        ELSE [p EXCEPT !.pos = r.pos, !.currentToken = r.token]
  IN  IF p.currentToken.type = tokenType
      THEN Advanced(lexer[p.pos])
      ELSE [p EXCEPT !.error =
              ExpectedToken(tokenType, p.currentToken.type,
                            p.currentToken.position)]

\* A statement after a call of eat that left the parser in p1: the error it
\* threw, if any.
Thrown(p1) == Throw(p1, p1.error)

\* term() and expr(), defined after factor().
Term(lexer, p) ==
  LET Loop(f) == IF Failed(f.p.error) THEN f ELSE TermLoop(lexer, f.p, f.node)
  IN  Loop(Factor(lexer, p))

Expr(lexer, p) ==
  LET Loop(t) == IF Failed(t.p.error) THEN t ELSE ExprLoop(lexer, t.p, t.node)
  IN  Loop(Term(lexer, p))

\* The loop of argumentList with each further argument put in front.
ArgumentLoopPrepending(lexer, p, args) ==
  LET Pushed(e) ==
        IF Failed(e.p.error) THEN e
        ELSE ArgumentLoop(lexer, e.p, <<e.node>> \o args)
      Eaten(p1) ==
        IF Failed(p1.error) THEN Thrown(p1) ELSE Pushed(Expr(lexer, p1))
  IN  IF p.currentToken.type = "COMMA"
      THEN Eaten(Eat(lexer, p, "COMMA"))
      ELSE Ok(p, args)

\* The while loop of argumentList: args collected so far.
ArgumentLoop(lexer, p, args) ==
  LET Pushed(e) ==
        IF Failed(e.p.error) THEN e
        ELSE ArgumentLoop(lexer, e.p, Append(args, e.node))
      Eaten(p1) ==
        IF Failed(p1.error) THEN Thrown(p1) ELSE Pushed(Expr(lexer, p1))
  IN  IF p.currentToken.type = "COMMA"
      THEN Eaten(Eat(lexer, p, "COMMA"))
      ELSE Ok(p, args)

\* argumentList(): `node` of the result is the sequence of argument nodes.
ArgumentList(lexer, p) ==
  LET Pushed(e) ==
        IF Failed(e.p.error) THEN e ELSE ArgumentLoop(lexer, e.p, <<e.node>>)
  IN  IF p.currentToken.type = "RPAREN"
      THEN Ok(p, <<>>)
      ELSE Pushed(Expr(lexer, p))

\* functionCall(name)
FunctionCall(lexer, p, name) ==
  LET Closed(a, p2) ==
        IF Failed(p2.error) THEN Thrown(p2)
        ELSE Ok(p2, createFunctionCallNode(name, a.node))
      Listed(a) ==
        IF Failed(a.p.error) THEN Thrown(a.p)
        ELSE Closed(a, Eat(lexer, a.p, "RPAREN"))
      Opened(p1) ==
        IF Failed(p1.error) THEN Thrown(p1) ELSE Listed(ArgumentList(lexer, p1))
  IN  Opened(Eat(lexer, p, "LPAREN"))

\* factor(), the branch of a unary sign.
UnaryFactor(lexer, p, tokenType, operator) ==
  LET Wrapped(f) ==
        IF Failed(f.p.error) THEN f
        ELSE Ok(f.p, createUnaryOpNode(operator, f.node))
      Eaten(p1) ==
        IF Failed(p1.error) THEN Thrown(p1) ELSE Wrapped(Factor(lexer, p1))
  IN  Eaten(Eat(lexer, p, tokenType))

\* IdentifierFactor that takes a bare identifier for a call without arguments.
IdentifierFactorBareAccepted(lexer, p) ==
  LET token == p.currentToken
      Eaten(p1) ==
        IF Failed(p1.error) THEN Thrown(p1)
        ELSE IF p1.currentToken.type = "LPAREN"
        THEN FunctionCall(lexer, p1, token.value)
        ELSE Ok(p1, createFunctionCallNode(token.value, <<>>))
  IN  Eaten(Eat(lexer, p, "IDENTIFIER"))

\* factor(), the branch of an identifier.
IdentifierFactor(lexer, p) ==
  LET token == p.currentToken
      Eaten(p1) ==
        IF Failed(p1.error) THEN Thrown(p1)
        ELSE IF p1.currentToken.type = "LPAREN"
        THEN FunctionCall(lexer, p1, token.value)
        ELSE Throw(p1, UnexpectedIdentifier(token.position, token.value))
  IN  Eaten(Eat(lexer, p, "IDENTIFIER"))

\* ParenFactor that wraps the expression in a node of its own.
ParenFactorWrapped(lexer, p) ==
  LET Closed(e, p2) ==
        IF Failed(p2.error) THEN Thrown(p2)
        ELSE Ok(p2, createUnaryOpNode("+", e.node))
      Inside(e) ==
        IF Failed(e.p.error) THEN e ELSE Closed(e, Eat(lexer, e.p, "RPAREN"))
      Opened(p1) ==
        IF Failed(p1.error) THEN Thrown(p1) ELSE Inside(Expr(lexer, p1))
  IN  Opened(Eat(lexer, p, "LPAREN"))

\* factor(), the branch of a parenthesised expression.
ParenFactor(lexer, p) ==
  LET Closed(e, p2) ==
        IF Failed(p2.error) THEN Thrown(p2) ELSE Ok(p2, e.node)
      Inside(e) ==
        IF Failed(e.p.error) THEN e ELSE Closed(e, Eat(lexer, e.p, "RPAREN"))
      Opened(p1) ==
        IF Failed(p1.error) THEN Thrown(p1) ELSE Inside(Expr(lexer, p1))
  IN  Opened(Eat(lexer, p, "LPAREN"))

\* The branch of an integer literal that leaves the literal the current
\* token.
IntegerFactorNotEaten(lexer, p) ==
  Ok(p, createIntegerNode(p.currentToken.value))

\* factor(), the branch of an integer literal.
IntegerFactor(lexer, p) ==
  LET token == p.currentToken
      Eaten(p1) ==
        IF Failed(p1.error) THEN Thrown(p1)
        ELSE Ok(p1, createIntegerNode(token.value))
  IN  Eaten(Eat(lexer, p, "INTEGER"))

\* Factor that takes a missing operand for the literal 0.
FactorMissingOperandZero(lexer, p) ==
  LET token == p.currentToken
  IN  IF token.type = "PLUS" THEN UnaryFactor(lexer, p, "PLUS", "+")
      ELSE IF token.type = "MINUS" THEN UnaryFactor(lexer, p, "MINUS", "-")
      ELSE IF token.type = "INTEGER" THEN IntegerFactor(lexer, p)
      ELSE IF token.type = "IDENTIFIER" THEN IdentifierFactor(lexer, p)
      ELSE IF token.type = "LPAREN" THEN ParenFactor(lexer, p)
      ELSE Ok(p, createIntegerNode(Num(0)))

\* factor()
Factor(lexer, p) ==
  LET token == p.currentToken
  IN  IF token.type = "PLUS" THEN UnaryFactor(lexer, p, "PLUS", "+")
      ELSE IF token.type = "MINUS" THEN UnaryFactor(lexer, p, "MINUS", "-")
      ELSE IF token.type = "INTEGER" THEN IntegerFactor(lexer, p)
      ELSE IF token.type = "IDENTIFIER" THEN IdentifierFactor(lexer, p)
      ELSE IF token.type = "LPAREN" THEN ParenFactor(lexer, p)
      ELSE Throw(p, UnexpectedToken(token.position, token.type))

\* TermLoop that also folds + and - (one precedence level for all four).
TermLoopAllOperators(lexer, p, node) ==
  LET token == p.currentToken
      operator == token.value
      Folded(f) ==
        IF Failed(f.p.error) THEN f
        ELSE TermLoop(lexer, f.p, createBinaryOpNode(operator, node, f.node))
      Eaten(p1) ==
        IF Failed(p1.error) THEN Thrown(p1) ELSE Folded(Factor(lexer, p1))
  IN  IF token.type \in {"MUL", "DIV", "PLUS", "MINUS"}
      THEN Eaten(Eat(lexer, p, token.type))
      ELSE Ok(p, node)

\* The while loop of term(): node is the left operand built so far.
TermLoop(lexer, p, node) ==
  LET token == p.currentToken
      operator == IF token.type = "MUL" THEN "*" ELSE "/"
      Folded(f) ==
        IF Failed(f.p.error) THEN f
        ELSE TermLoop(lexer, f.p, createBinaryOpNode(operator, node, f.node))
      Eaten(p1) ==
        IF Failed(p1.error) THEN Thrown(p1) ELSE Folded(Factor(lexer, p1))
  IN  IF token.type \in {"MUL", "DIV"}
      THEN Eaten(Eat(lexer, p, token.type))
      ELSE Ok(p, node)

\* ExprLoop that parses the right operand as a whole expression.
ExprLoopRightRecursive(lexer, p, node) ==
  LET token == p.currentToken
      operator == IF token.type = "PLUS" THEN "+" ELSE "-"
      Folded(e) ==
        IF Failed(e.p.error) THEN e
        ELSE Ok(e.p, createBinaryOpNode(operator, node, e.node))
      Eaten(p1) ==
        IF Failed(p1.error) THEN Thrown(p1) ELSE Folded(Expr(lexer, p1))
  IN  IF token.type \in {"PLUS", "MINUS"}
      THEN Eaten(Eat(lexer, p, token.type))
      ELSE Ok(p, node)

\* The while loop of expr(): node is the left operand built so far.
ExprLoop(lexer, p, node) ==
  LET token == p.currentToken
      operator == IF token.type = "PLUS" THEN "+" ELSE "-"
      Folded(t) ==
        IF Failed(t.p.error) THEN t
        ELSE ExprLoop(lexer, t.p, createBinaryOpNode(operator, node, t.node))
      Eaten(p1) ==
        IF Failed(p1.error) THEN Thrown(p1) ELSE Folded(Term(lexer, p1))
  IN  IF token.type \in {"PLUS", "MINUS"}
      THEN Eaten(Eat(lexer, p, token.type))
      ELSE Ok(p, node)

\* Parse without the check that EOF follows the root expression.
ParseNoEofCheck(text, p) == Expr(LexerOn(text), p)

\* parse(): the root expression, then the check that EOF follows it.
Parse(text, p) ==
  LET Checked(e) ==
        IF Failed(e.p.error) THEN e
        ELSE IF e.p.currentToken.type # "EOF"
        THEN Throw(e.p, UnexpectedToken(e.p.currentToken.position,
                                        e.p.currentToken.type))
        ELSE e
  IN  Checked(Expr(LexerOn(text), p))

(***************************************************************************)
(* The Lexer of NUMBER tokens (lexer.ts, the first class) and the Parser   *)
(* that is constructed from a Lexer (parser.ts, the second class).  A      *)
(* token is a kind and a value, without an offset; the nodes are those of  *)
(* ast.ts: Number, BinaryOp, and UnaryOp for the operator "-" only.        *)
(***************************************************************************)
NumberToken(type, value) == [type |-> type, value |-> value]

\* The if chain of getNextToken: the token kind of an operator character or
\* a parenthesis.
OperatorTokenType(c) ==
  CASE c = "+" -> "PLUS"
    [] c = "-" -> "MINUS"
    [] c = "*" -> "MULTIPLY"
    [] c = "/" -> "DIVIDE"
    [] c = "(" -> "LPAREN"
    [] c = ")" -> "RPAREN"
    [] OTHER -> "none"

\* The body of getNextToken's loop once the whitespace is skipped: cursor at
\* pos, on the character c.  number() reads the digits with parseInt.
NumberLexerScan(text, pos, c) ==
  LET Number(r) ==
        [token |-> NumberToken("NUMBER", r.value), pos |-> r.pos,
         error |-> NoError]
      Operator(type) ==
        IF type # "none"
        THEN [token |-> NumberToken(type, c), pos |-> pos + 1,
              error |-> NoError]
        ELSE [token |-> NumberToken("none", ""), pos |-> pos,
              error |-> InvalidCharacterOf(c)]
  IN  IF c = "null"
      THEN [token |-> NumberToken("EOF", "EOF"), pos |-> pos,
            error |-> NoError]
      ELSE IF c \in Digits THEN Number(ScanInteger(text, pos, <<>>))
      ELSE Operator(OperatorTokenType(c))

\* The character at cursor pos, for the scan that starts there.
NumberLexerScanAt(text, pos) ==
  NumberLexerScan(text, pos, CurrentChar(text, pos))

\* getNextToken from cursor pos0: the token returned and the new cursor, or
\* the error thrown (the cursor then rests on the offending character).
NumberLexerGetNextToken(text, pos0) ==
  NumberLexerScanAt(text, SkipWhitespace(text, pos0))

\* A Lexer of NUMBER tokens on the text, as a Parser holds it: what
\* getNextToken returns with the cursor at pos.
NumberLexerOn(text) ==
  [pos \in 0..(Len(text) + 1) |-> NumberLexerGetNextToken(text, pos)]

\* new Parser(new Lexer(text)): the constructor takes the first token.
NewLexerParser(text) ==
  LET First(r) == [pos |-> r.pos, currentToken |-> r.token, error |-> r.error]
  IN  First(NumberLexerGetNextToken(text, 0))

\* eat(tokenType)
LexerParserEat(lexer, p, tokenType) ==
  LET Advanced(r) ==
        IF Failed(r.error)
        THEN [p EXCEPT !.pos = r.pos, !.error = r.error]
        ELSE [p EXCEPT !.pos = r.pos, !.currentToken = r.token]
  IN  IF p.currentToken.type = tokenType
      THEN Advanced(lexer[p.pos])
      ELSE [p EXCEPT !.error =
              ExpectedTokenGot(tokenType, p.currentToken.type)]

\* term() and expr(), defined after factor().
LexerParserTerm(lexer, p) ==
  LET Loop(f) ==
        IF Failed(f.p.error) THEN f
        ELSE LexerParserTermLoop(lexer, f.p, f.node)
  IN  Loop(LexerParserFactor(lexer, p))

LexerParserExpr(lexer, p) ==
  LET Loop(t) ==
        IF Failed(t.p.error) THEN t
        ELSE LexerParserExprLoop(lexer, t.p, t.node)
  IN  Loop(LexerParserTerm(lexer, p))

\* factor(): a unary plus is eaten and the factor after it returned as it
\* is; a unary minus becomes a UnaryOp node.
LexerParserFactor(lexer, p) ==
  LET token == p.currentToken
      AfterPlus(p1) ==
        IF Failed(p1.error) THEN Thrown(p1) ELSE LexerParserFactor(lexer, p1)
      Negated(f) ==
        IF Failed(f.p.error) THEN f
        ELSE Ok(f.p, [type |-> "UnaryOp", operator |-> "-", operand |-> f.node])
      AfterMinus(p1) ==
        IF Failed(p1.error) THEN Thrown(p1)
        ELSE Negated(LexerParserFactor(lexer, p1))
      AfterNumber(p1) ==
        IF Failed(p1.error) THEN Thrown(p1)
        ELSE Ok(p1, [type |-> "Number", value |-> token.value])
      Closed(e, p2) ==
        IF Failed(p2.error) THEN Thrown(p2) ELSE Ok(p2, e.node)
      Inside(e) ==
        IF Failed(e.p.error) THEN e
        ELSE Closed(e, LexerParserEat(lexer, e.p, "RPAREN"))
      AfterParen(p1) ==
        IF Failed(p1.error) THEN Thrown(p1)
        ELSE Inside(LexerParserExpr(lexer, p1))
  IN  IF token.type = "PLUS" THEN AfterPlus(LexerParserEat(lexer, p, "PLUS"))
      ELSE IF token.type = "MINUS"
      THEN AfterMinus(LexerParserEat(lexer, p, "MINUS"))
      ELSE IF token.type = "NUMBER"
      THEN AfterNumber(LexerParserEat(lexer, p, "NUMBER"))
      ELSE IF token.type = "LPAREN"
      THEN AfterParen(LexerParserEat(lexer, p, "LPAREN"))
      ELSE Throw(p, UnexpectedTokenOf(token.type))

\* The while loop of term(): node is the left operand built so far, the
\* operator of the new node the value of the token.
LexerParserTermLoop(lexer, p, node) ==
  LET token == p.currentToken
      Folded(f) ==
        IF Failed(f.p.error) THEN f
        ELSE LexerParserTermLoop(lexer, f.p,
               [type |-> "BinaryOp", operator |-> token.value,
                left |-> node, right |-> f.node])
      Eaten(p1) ==
        IF Failed(p1.error) THEN Thrown(p1)
        ELSE Folded(LexerParserFactor(lexer, p1))
  IN  IF token.type \in {"MULTIPLY", "DIVIDE"}
      THEN Eaten(LexerParserEat(lexer, p, token.type))
      ELSE Ok(p, node)

\* The while loop of expr(): node is the left operand built so far.
LexerParserExprLoop(lexer, p, node) ==
  LET token == p.currentToken
      Folded(t) ==
        IF Failed(t.p.error) THEN t
        ELSE LexerParserExprLoop(lexer, t.p,
               [type |-> "BinaryOp", operator |-> token.value,
                left |-> node, right |-> t.node])
      Eaten(p1) ==
        IF Failed(p1.error) THEN Thrown(p1)
        ELSE Folded(LexerParserTerm(lexer, p1))
  IN  IF token.type \in {"PLUS", "MINUS"}
      THEN Eaten(LexerParserEat(lexer, p, token.type))
      ELSE Ok(p, node)

\* parse(): the root expression, then the check that EOF follows it.
LexerParserParse(text, p) ==
  LET Checked(e) ==
        IF Failed(e.p.error) THEN e
        ELSE IF e.p.currentToken.type # "EOF"
        THEN Throw(e.p, ExpectedEndOfExpression)
        ELSE e
  IN  Checked(LexerParserExpr(NumberLexerOn(text), p))

(***************************************************************************)
(* Arithmetic of numbers: the result of an operation is the double        *)
(* nearest to the result on the reals.                                     *)
(***************************************************************************)
NumberNegate(v) ==
  IF IsSmall(v) THEN Dyadic(-v.n, v.d, ~v.negZero)
  ELSE IF IsLarge(v) THEN [v EXCEPT !.negative = ~v.negative]
  ELSE IF IsNaN(v) THEN v
  ELSE Infinite(v.name = "Infinity")

\* Numbers whose sums and products are computed as integers of TLC.
IsShort(v) == IsSmall(v) /\ Abs(v.n) <= Base /\ v.d <= Base

\* The exponent above the leading bit of a number in parts.
TopExponent(p) == p.e + BitLength(p.m)

\* The sum of x, negative as l tells, and y, negative as r tells, c
\* comparing x to y: its sign and its size.
SignedSum(l, r, x, y, c) ==
  IF l = r THEN [negative |-> l, m |-> AddBig(x, y)]
  ELSE IF c >= 0 THEN [negative |-> l /\ c > 0, m |-> SubtractBig(x, y)]
  ELSE [negative |-> r, m |-> SubtractBig(y, x)]

RoundedSum(sum, e) == Rounded(sum.negative, sum.m, e)

\* The sum of x * 2^e signed as p and y * 2^e signed as q.
AddAligned(p, q, x, y, e) ==
  RoundedSum(SignedSum(p.negative, q.negative, x, y, CompareBig(x, y)), e)

\* The sum of two numbers l and r, each other than zero, p and q their
\* parts: where one is more than 2^64 times the other, it is the sum.
AddParts(l, r, p, q) ==
  IF TopExponent(p) > TopExponent(q) + 64 THEN l
  ELSE IF TopExponent(q) > TopExponent(p) + 64 THEN r
  ELSE AddAligned(p, q, ShiftLeftBits(p.m, p.e - Min(p.e, q.e)),
                  ShiftLeftBits(q.m, q.e - Min(p.e, q.e)), Min(p.e, q.e))

\* l + r on numbers
NumberAdd(l, r) ==
  IF IsNaN(l) \/ IsNaN(r) THEN NaN
  ELSE IF IsInfinite(l)
  THEN (IF IsInfinite(r) /\ l # r THEN NaN ELSE l)
  ELSE IF IsInfinite(r) THEN r
  ELSE IF IsShort(l) /\ IsShort(r)
  THEN Dyadic(l.n * r.d + r.n * l.d, l.d * r.d, l.negZero /\ r.negZero)
  ELSE IF IsZero(l) THEN (IF IsZero(r) THEN Zero(l.negZero /\ r.negZero) ELSE r)
  ELSE IF IsZero(r) THEN l
  ELSE AddParts(l, r, Parts(l), Parts(r))

\* l - r on numbers
NumberSubtract(l, r) == NumberAdd(l, NumberNegate(r))

MultiplyParts(l, r) ==
  Rounded(l.negative # r.negative, MultiplyBig(l.m, r.m), l.e + r.e)

\* l * r on numbers
NumberMultiply(l, r) ==
  IF IsNaN(l) \/ IsNaN(r) THEN NaN
  ELSE IF IsInfinite(l) \/ IsInfinite(r)
  THEN (IF IsZero(l) \/ IsZero(r) THEN NaN
        ELSE Infinite(SignBit(l) # SignBit(r)))
  ELSE IF IsShort(l) /\ IsShort(r)
  THEN Dyadic(l.n * r.n, l.d * r.d, SignBit(l) # SignBit(r))
  ELSE IF IsZero(l) \/ IsZero(r) THEN Zero(SignBit(l) # SignBit(r))
  ELSE MultiplyParts(Parts(l), Parts(r))

\* The quotient q and one bit more, set where the division left a
\* remainder.
WithSticky(q) ==
  AddBig(ShiftLeftBits(q.q, 1), IF q.zero THEN <<>> ELSE <<1>>)

DivideShifted(l, r, shift) ==
  Rounded(l.negative # r.negative,
          WithSticky(DivideBig(ShiftLeftBits(l.m, shift), r.m)),
          l.e - r.e - shift - 1)

\* The quotient of two numbers in parts, rounded from 55 bits or more of it.
DivideParts(l, r) ==
  DivideShifted(l, r, Max(55 + BitLength(r.m) - BitLength(l.m), 0))

\* l / r on numbers
NumberDivide(l, r) ==
  IF IsNaN(l) \/ IsNaN(r) THEN NaN
  ELSE IF IsInfinite(l)
  THEN (IF IsInfinite(r) THEN NaN ELSE Infinite(SignBit(l) # SignBit(r)))
  ELSE IF IsInfinite(r) THEN Zero(SignBit(l) # SignBit(r))
  ELSE IF IsZero(r)
  THEN (IF IsZero(l) THEN NaN ELSE Infinite(SignBit(l) # SignBit(r)))
  ELSE IF IsZero(l) THEN Zero(SignBit(l) # SignBit(r))
  ELSE IF /\ IsShort(l) /\ IsShort(r)
          /\ IsPowerOfTwo(Dyadic(l.n * r.d, l.d * r.n, FALSE).d)
  THEN Dyadic(l.n * r.d, l.d * r.n, FALSE)
  ELSE DivideParts(Parts(l), Parts(r))

(***************************************************************************)
(* Number::toString: the notation of a number in a string.  Its digits are *)
(* the fewest that denote no other double, and of these the nearest.       *)
(***************************************************************************)
\* 10^k from h = 10^(k \div 2), odd being k % 2.
PowerStep(h, odd) == MultiplyBig(h, IF odd = 1 THEN ScaleBig(10, h) ELSE h)

\* 10^k
Pow10(k) == IF k = 0 THEN <<1>> ELSE PowerStep(Pow10(k \div 2), k % 2)

\* The exponent of the leading bit of a number in parts.
LeadingExponent(p) == p.e + BitLength(p.m) - 1

\* The exponent of the last bit of the significand of the double: its
\* neighbour above is 2^UlpExponent away.
UlpExponent(p) == Max(LeadingExponent(p) - 52, -1074)

\* The significand of the double is even: it is the one a tie rounds to.
EvenSignificand(p) == p.e > UlpExponent(p)

\* The neighbour below is half as far as the one above.
NarrowBelow(p) == p.m = <<1>> /\ UlpExponent(p) > -1074

\* The exponent of the distance to the nearest number that rounds to
\* another double.
MarginExponent(p) ==
  IF NarrowBelow(p) THEN UlpExponent(p) - 2 ELSE UlpExponent(p) - 1

\* A number v as the fraction r / s, with the margins above and below it,
\* in the same unit, within which a number rounds to v; inclusive tells
\* whether the ends of the margins do.
Fraction(r, s, above, below, inclusive) ==
  [r |-> r, s |-> s, above |-> above, below |-> below, inclusive |-> inclusive]

FractionOf(p, unit) ==
  Fraction(ShiftLeftBits(p.m, p.e - unit),
           ShiftLeftBits(<<1>>, Max(-MarginExponent(p), 0)),
           ShiftLeftBits(<<1>>, UlpExponent(p) - 1 - unit),
           ShiftLeftBits(<<1>>, MarginExponent(p) - unit),
           EvenSignificand(p))

\* The naturals xs, each times x.
EachTimes(xs, x) == Tuple([i \in 1..Len(xs) |-> MultiplyBig(xs[i], x)])

\* The fraction f with the numerators of the number and of its margins.
WithNumerators(f, numerators) ==
  [f EXCEPT !.r = numerators[1], !.above = numerators[2],
            !.below = numerators[3]]

\* The fraction f times the natural x.
Times(f, x) == WithNumerators(f, EachTimes(<<f.r, f.above, f.below>>, x))

\* The fraction times 10^-k, power being 10^|k|.
ScaledBy(f, k, power) ==
  IF k >= 0 THEN [f EXCEPT !.s = MultiplyBig(power, f.s)]
  ELSE Times(f, power)

\* The fraction times 10^-k
Scaled(f, k) == ScaledBy(f, k, Pow10(Abs(k)))

\* The upper margin reaches s.
ReachesAbove(r, s, above, inclusive) ==
  CompareBig(AddBig(r, above), s) >= (IF inclusive THEN 0 ELSE 1)

\* The lower margin reaches zero.
ReachesBelow(r, below, inclusive) ==
  CompareBig(r, below) <= (IF inclusive THEN 0 ELSE -1)

\* The fraction f of margins that reach one, divided by ten until they do
\* not, and n with f * 10^n the number.
ScaleUp(f, n) ==
  IF ReachesAbove(f.r, f.s, f.above, f.inclusive)
  THEN ScaleUp([f EXCEPT !.s = ScaleBig(10, f.s)], n + 1)
  ELSE [f |-> f, n |-> n]

\* A number in parts as a fraction below one and the decimal exponent n.
ScaledFraction(p) ==
  ScaleUp(Scaled(FractionOf(p, Min(MarginExponent(p), 0)),
                 (LeadingExponent(p) * 30103) \div 100000),
          (LeadingExponent(p) * 30103) \div 100000)

\* The first digits of a fraction f, g being f * 10^length: lead is the
\* natural they denote and rest what is left of g after it.  They denote a
\* number within the margin below f (endsBelow), and they with the last one
\* raised a number within the margin above it (endsAbove), or not.
CutRest(g, length, lead, rest) ==
  [length |-> length, lead |-> lead, rest |-> rest, s |-> g.s,
   endsBelow |-> ReachesBelow(rest, g.below, g.inclusive),
   endsAbove |-> ReachesAbove(rest, g.s, g.above, g.inclusive)]

CutLead(g, length, lead) ==
  CutRest(g, length, lead, SubtractBig(g.r, MultiplyBig(lead, g.s)))

CutOf(g, length) == CutLead(g, length, DivideBig(g.r, g.s).q)

\* The first j digits of the fraction f.
Cut(f, j) == CutOf(Times(f, Pow10(j)), j)

\* The fewest digits that tell the number from its neighbours, from a cut on.
ShortestFrom(f, cut) ==
  IF cut.endsBelow \/ cut.endsAbove THEN cut
  ELSE ShortestCut(f, cut.length + 1)

\* The fewest digits of f, j or more, that tell the number from its
\* neighbours: 17 do.
ShortestCut(f, j) == ShortestFrom(f, Cut(f, j))

\* Twice the rest compares as c to s: the number with the last digit raised
\* is the nearer one, or as near and the even one.
NearerAbove(c, lead) == c > 0 \/ (c = 0 /\ LimbAt(lead, 1) % 2 = 1)

\* The last digit is raised where only that gives a number within the
\* margins, or the nearer number, or of two as near the even one.
RaisesLast(cut) ==
  /\ cut.endsAbove
  /\ cut.endsBelow =>
       NearerAbove(CompareBig(ShiftLeftBits(cut.rest, 1), cut.s), cut.lead)

\* The digits of the notation, as a natural.
ShortestNatural(cut) ==
  AddBig(cut.lead, IF RaisesLast(cut) THEN <<1>> ELSE <<>>)

PowersOfTen == <<1, 10, 100, 1000, 10000>>

GroupsAfter(d, count) ==
  <<d.r>> \o DecimalGroups(Trim(Reversed(d.q)), count - 1)

\* The decimal digits of a natural in count groups of four, the least
\* significant group first.
DecimalGroups(x, count) ==
  IF count = 0 THEN <<>>
  ELSE GroupsAfter(ShortDivide(x, PowersOfTen[5], Len(x), 0), count)

\* The digit of weight 10^place.
DecimalDigitAt(groups, place) ==
  (groups[(place \div 4) + 1] \div PowersOfTen[(place % 4) + 1]) % 10

\* The j decimal digits of a natural below 10^20 in groups, the first one
\* first.
DecimalDigits(groups, j) == [i \in 1..j |-> DecimalDigitAt(groups, j - i)]

DigitsOfCut(cut) ==
  Tuple(DecimalDigits(DecimalGroups(ShortestNatural(cut), 5), cut.length))

DigitsOfFraction(scaled) ==
  [digits |-> DigitsOfCut(ShortestCut(scaled.f, 1)), n |-> scaled.n]

\* The digits d1 ... dk of a number in parts and the exponent n with
\* 0.d1...dk * 10^n the number.
ShortestDigits(p) == DigitsOfFraction(ScaledFraction(p))

\* The decimal notation of a natural.
DecimalChars(i) ==
  IF i < 10 THEN <<DigitChar(i)>>
  ELSE Append(DecimalChars(i \div 10), DigitChar(i % 10))

Chars(digits) == [i \in 1..Len(digits) |-> DigitChar(digits[i])]

Zeros(count) == [i \in 1..count |-> "0"]

ExponentChars(e) ==
  <<"e", IF e < 0 THEN "-" ELSE "+">> \o DecimalChars(Abs(e))

\* The notation of the digits with the decimal exponent n.
Notation(digits, n) ==
  IF Len(digits) <= n /\ n <= 21 THEN Chars(digits) \o Zeros(n - Len(digits))
  ELSE IF 0 < n /\ n <= 21
  THEN Chars(SubSeq(digits, 1, n)) \o <<".">>
       \o Chars(SubSeq(digits, n + 1, Len(digits)))
  ELSE IF -6 < n /\ n <= 0 THEN <<"0", ".">> \o Zeros(-n) \o Chars(digits)
  ELSE IF Len(digits) = 1 THEN Chars(digits) \o ExponentChars(n - 1)
  ELSE <<DigitChar(digits[1]), ".">> \o Chars(SubSeq(digits, 2, Len(digits)))
       \o ExponentChars(n - 1)

NotationOf(shortest) == Notation(shortest.digits, shortest.n)

\* Number::toString(x)
NumberToString(v) ==
  IF IsNaN(v) THEN <<"N", "a", "N">>
  ELSE IF IsInfinite(v)
  THEN (IF SignBit(v) THEN <<"-">> ELSE <<>>)
       \o <<"I", "n", "f", "i", "n", "i", "t", "y">>
  ELSE IF IsSmall(v) /\ v.d = 1
  THEN (IF v.n < 0 THEN <<"-">> ELSE <<>>) \o DecimalChars(Abs(v.n))
  ELSE (IF SignBit(v) THEN <<"-">> ELSE <<>>)
       \o NotationOf(ShortestDigits(Parts(v)))

(***************************************************************************)
(* Values.  A value of the evaluator is a number, a string (its            *)
(* characters), a boolean or an object: a plain one, or the wrapper of a   *)
(* primitive value.  Objects are told apart by what they hold, not by      *)
(* their identity.                                                         *)
(***************************************************************************)
Str(chars) == [t |-> "string", s |-> chars]

Bool(b) == [t |-> "boolean", b |-> b]

\* Object()
PlainObject == [t |-> "object", class |-> "Object"]

\* Object(v) for a value v
ToObject(v) ==
  IF v.t = "object" THEN v
  ELSE [t |-> "object",
        class |-> CASE v.t = "number" -> "Number"
                    [] v.t = "string" -> "String"
                    [] v.t = "boolean" -> "Boolean",
        primitive |-> v]

\* Object.prototype.toString.call(undefined)
ObjectUndefined ==
  <<"[", "o", "b", "j", "e", "c", "t", " ",
    "U", "n", "d", "e", "f", "i", "n", "e", "d", "]">>

\* Object.prototype.toString.call({})
ObjectObject ==
  <<"[", "o", "b", "j", "e", "c", "t", " ", "O", "b", "j", "e", "c", "t", "]">>

\* ToPrimitive(v): valueOf gives the primitive of a wrapper, and toString
\* the string of a plain object, whose valueOf gives the object itself.
ToPrimitive(v) ==
  IF v.t # "object" THEN v
  ELSE IF "primitive" \in DOMAIN v THEN v.primitive
  ELSE Str(ObjectObject)

\* The characters of the numeric literals of a string: white space, digits,
\* signs, the point, the exponent mark, the letters of Infinity and of the
\* hexadecimal, octal and binary literals.
NumericLiteralChars ==
  Whitespace \cup Digits
  \cup {"+", "-", ".", "I", "n", "i", "t", "y", "x", "X", "o", "O",
        "a", "b", "c", "d", "e", "f", "A", "B", "C", "D", "E", "F"}

\* StringToNumber(s), for the strings the evaluator meets: one that holds a
\* character of no numeric literal, white space only, or digits only.
StringToNumber(s) ==
  CASE \E i \in 1..Len(s) : s[i] \notin NumericLiteralChars -> NaN
    [] \A i \in 1..Len(s) : s[i] \in Whitespace -> Num(0)
    [] Len(s) > 0 /\ \A i \in 1..Len(s) : s[i] \in Digits -> DigitsValue(s)

\* ToNumber(v) for a primitive value
ToNumber(v) ==
  CASE v.t = "number" -> v
    [] v.t = "boolean" -> Num(IF v.b THEN 1 ELSE 0)
    [] v.t = "string" -> StringToNumber(v.s)

\* ToNumeric(v)
ToNumeric(v) == ToNumber(ToPrimitive(v))

\* ToNumeric of each of the values vs.
EachToNumeric(vs) == [i \in 1..Len(vs) |-> ToNumeric(vs[i])]

\* ToNumber of each of the primitive values vs.
EachToNumber(vs) == [i \in 1..Len(vs) |-> ToNumber(vs[i])]

\* ToString(v) for a primitive value
ToChars(v) ==
  CASE v.t = "number" -> NumberToString(v)
    [] v.t = "boolean" ->
         IF v.b THEN <<"t", "r", "u", "e">> ELSE <<"f", "a", "l", "s", "e">>
    [] v.t = "string" -> v.s

\* ToString of each of the primitive values vs.
EachToChars(vs) == [i \in 1..Len(vs) |-> ToChars(vs[i])]

\* l + r on primitive values: a string with anything is a concatenation.
AddPrimitives(l, r) ==
  LET Joined(chars) == Str(chars[1] \o chars[2])
      Summed(numbers) == NumberAdd(numbers[1], numbers[2])
  IN  IF l.t = "string" \/ r.t = "string"
      THEN Joined(EachToChars(<<l, r>>))
      ELSE Summed(EachToNumber(<<l, r>>))

\* left + right
Add(l, r) == AddPrimitives(ToPrimitive(l), ToPrimitive(r))

\* left - right
Subtract(l, r) ==
  LET Of(numbers) == NumberSubtract(numbers[1], numbers[2])
  IN  Of(EachToNumeric(<<l, r>>))

\* left * right
Multiply(l, r) ==
  LET Of(numbers) == NumberMultiply(numbers[1], numbers[2])
  IN  Of(EachToNumeric(<<l, r>>))

\* left / right
Divide(l, r) ==
  LET Of(numbers) == NumberDivide(numbers[1], numbers[2])
  IN  Of(EachToNumeric(<<l, r>>))

\* -operand
Negate(v) == NumberNegate(ToNumeric(v))

(***************************************************************************)
(* Function registry.  A registry maps names to host functions; reading    *)
(* this.functions[name] finds the registry's own entries and, the registry *)
(* being a plain object, the members it inherits from Object.prototype.    *)
(***************************************************************************)
Undefined == "undefined"

\* No value: what a call that threw returns, and the result of an
\* evaluation that has not returned.
NoValue == [t |-> "undefined"]

EmptyRegistry == [name \in {} |-> Undefined]

\* Host functions a caller registers: random, sum and fail are functions of
\* the tests' registries, zero is a function that returns 0.
HostFunctions == {"random", "zero", "sum", "fail"}

\* Members of Object.prototype: the function each name gives, Object for
\* constructor and Object.prototype itself for __proto__.
ObjectPrototype ==
  (<<"c", "o", "n", "s", "t", "r", "u", "c", "t", "o", "r">> :> "Object")
  @@ (<<"_", "_", "d", "e", "f", "i", "n", "e", "G", "e", "t", "t", "e", "r",
        "_", "_">> :> "Object.prototype.__defineGetter__")
  @@ (<<"_", "_", "d", "e", "f", "i", "n", "e", "S", "e", "t", "t", "e", "r",
        "_", "_">> :> "Object.prototype.__defineSetter__")
  @@ (<<"h", "a", "s", "O", "w", "n", "P", "r", "o", "p", "e", "r", "t", "y">>
        :> "Object.prototype.hasOwnProperty")
  @@ (<<"_", "_", "l", "o", "o", "k", "u", "p", "G", "e", "t", "t", "e", "r",
        "_", "_">> :> "Object.prototype.__lookupGetter__")
  @@ (<<"_", "_", "l", "o", "o", "k", "u", "p", "S", "e", "t", "t", "e", "r",
        "_", "_">> :> "Object.prototype.__lookupSetter__")
  @@ (<<"i", "s", "P", "r", "o", "t", "o", "t", "y", "p", "e", "O", "f">>
        :> "Object.prototype.isPrototypeOf")
  @@ (<<"p", "r", "o", "p", "e", "r", "t", "y", "I", "s", "E", "n", "u", "m",
        "e", "r", "a", "b", "l", "e">> :> "Object.prototype.propertyIsEnumerable")
  @@ (<<"t", "o", "S", "t", "r", "i", "n", "g">> :> "Object.prototype.toString")
  @@ (<<"v", "a", "l", "u", "e", "O", "f">> :> "Object.prototype.valueOf")
  @@ (<<"_", "_", "p", "r", "o", "t", "o", "_", "_">> :> "Object.prototype")
  @@ (<<"t", "o", "L", "o", "c", "a", "l", "e", "S", "t", "r", "i", "n", "g">>
        :> "Object.prototype.toLocaleString")

\* this.functions[name]
Lookup(functions, name) ==
  IF name \in DOMAIN functions THEN functions[name]
  ELSE IF name \in DOMAIN ObjectPrototype THEN ObjectPrototype[name]
  ELSE Undefined

\* Whether calling func enters a function: Object.prototype is an object, and
\* calling it throws a TypeError inside the try block.
IsCallable(func) == func \notin {Undefined, "Object.prototype"}

\* args.reduce((a, b) => a + b, 0)
RECURSIVE SumOf(_)
SumOf(args) ==
  IF Len(args) = 0 THEN Num(0) ELSE Add(SumOf(SubSeq(args, 1, Len(args) - 1)),
                                        args[Len(args)])

Returns(v) == [threw |-> FALSE, value |-> v, cause |-> "none"]

Throws(cause) == [threw |-> TRUE, value |-> NoValue, cause |-> cause]

\* The members of Object.prototype that start with ToObject(this value).
NeedsThis ==
  {"Object.prototype.valueOf", "Object.prototype.hasOwnProperty",
   "Object.prototype.propertyIsEnumerable",
   "Object.prototype.__defineGetter__", "Object.prototype.__defineSetter__",
   "Object.prototype.__lookupGetter__", "Object.prototype.__lookupSetter__"}

\* func(...evaluatedArgs), called as a plain function (this is undefined).
Invoke(func, args) ==
  CASE func = "random" -> Returns(Num(42))
    [] func = "zero" -> Returns(Num(0))
    [] func = "sum" -> Returns(SumOf(args))
    [] func = "fail" -> Throws("Test error")
    [] func = "Object" ->
         Returns(IF Len(args) = 0 THEN PlainObject ELSE ToObject(args[1]))
    [] func = "Object.prototype.toString" -> Returns(Str(ObjectUndefined))
    [] func = "Object.prototype.isPrototypeOf" ->
         IF Len(args) > 0 /\ args[1].t = "object"
         THEN Throws("Cannot convert undefined or null to object")
         ELSE Returns(Bool(FALSE))
    [] func = "Object.prototype.toLocaleString" ->
         Throws("Object.prototype.toLocaleString called on null or undefined")
    [] func \in NeedsThis ->
         Throws("Cannot convert undefined or null to object")
    [] func = "Object.prototype" -> Throws("func is not a function")

(***************************************************************************)
(* Evaluator.  An evaluation returns a value or throws an error, and       *)
(* leaves the list of the registry functions it invoked, in order.         *)
(***************************************************************************)
Value(v, calls) == [ok |-> TRUE, value |-> v, error |-> NoError, calls |-> calls]

Raise(e, calls) == [ok |-> FALSE, value |-> NoValue, error |-> e, calls |-> calls]

\* ApplyBinaryOperator with the zero test on the wrong operand.
ApplyBinaryOperatorZeroTestOnLeft(operator, left, right, calls) ==
  CASE operator = "+" -> Value(Add(left, right), calls)
    [] operator = "-" -> Value(Subtract(left, right), calls)
    [] operator = "*" -> Value(Multiply(left, right), calls)
    [] operator = "/" ->
         IF IsZero(left) THEN Raise(DivisionByZero, calls)
         ELSE Value(Divide(left, right), calls)
    [] OTHER -> Raise(UnknownOperator(operator), calls)

\* The switch of evaluateBinaryOp on the operator.
ApplyBinaryOperator(operator, left, right, calls) ==
  CASE operator = "+" -> Value(Add(left, right), calls)
    [] operator = "-" -> Value(Subtract(left, right), calls)
    [] operator = "*" -> Value(Multiply(left, right), calls)
    [] operator = "/" ->
         IF IsZero(right) THEN Raise(DivisionByZero, calls)
         ELSE Value(Divide(left, right), calls)
    [] OTHER -> Raise(UnknownOperator(operator), calls)

\* ApplyUnaryOperator with the sign of a unary minus dropped.
ApplyUnaryOperatorSignDropped(operator, operand, calls) ==
  CASE operator = "+" -> Value(operand, calls)
    [] operator = "-" -> Value(operand, calls)
    [] OTHER -> Raise(UnknownOperator(operator), calls)

\* The switch of evaluateUnaryOp on the operator.
ApplyUnaryOperator(operator, operand, calls) ==
  CASE operator = "+" -> Value(operand, calls)
    [] operator = "-" -> Value(Negate(operand), calls)
    [] OTHER -> Raise(UnknownOperator(operator), calls)

\* The arguments of a call evaluated from the last one to the first.
EvaluateArgumentsLastFirst(args, functions, calls) ==
  LET Mapped(last, init) ==
        IF ~init.ok THEN Raise(init.error, last.calls \o init.calls)
        ELSE Value(Append(init.value, last.value), last.calls \o init.calls)
      Rest(last) ==
        IF ~last.ok THEN last
        ELSE Mapped(last,
                    EvaluateArguments(SubSeq(args, 1, Len(args) - 1),
                                      functions, calls))
  IN  IF Len(args) = 0 THEN Value(<<>>, calls)
      ELSE Rest(Evaluate(args[Len(args)], functions))

\* node.arguments.map((arg) => this.evaluate(arg)): `value` of the result is
\* the sequence of the argument values.
EvaluateArguments(args, functions, calls) ==
  LET Mapped(init, last) ==
        IF ~last.ok THEN Raise(last.error, init.calls \o last.calls)
        ELSE Value(Append(init.value, last.value), init.calls \o last.calls)
      Rest(init) ==
        IF ~init.ok THEN init
        ELSE Mapped(init, Evaluate(args[Len(args)], functions))
  IN  IF Len(args) = 0 THEN Value(<<>>, calls)
      ELSE Rest(EvaluateArguments(SubSeq(args, 1, Len(args) - 1), functions,
                                  calls))

\* EvaluateFunctionCall that lets the failure of the function through as it
\* was raised.
EvaluateFunctionCallUnwrapped(node, functions) ==
  LET Called(func, args, r) ==
        IF r.threw
        THEN Raise([class |-> "Error", kind |-> r.cause],
                   IF IsCallable(func)
                   THEN Append(args.calls,
                               [name |-> node.name, args |-> args.value])
                   ELSE args.calls)
        ELSE Value(r.value,
                   Append(args.calls, [name |-> node.name, args |-> args.value]))
      Reduced(func, args) ==
        IF ~args.ok THEN args ELSE Called(func, args, Invoke(func, args.value))
      Found(func) ==
        IF func = Undefined THEN Raise(UnknownFunction(node.name), <<>>)
        ELSE Reduced(func, EvaluateArguments(node.arguments, functions, <<>>))
  IN  Found(Lookup(functions, node.name))

\* EvaluateFunctionCall with the evaluation of the arguments inside its try
\* block.
EvaluateFunctionCallArgumentsInTry(node, functions) ==
  LET Called(func, args, r) ==
        IF r.threw
        THEN Raise(ErrorCallingFunction(node.name, r.cause),
                   IF IsCallable(func)
                   THEN Append(args.calls,
                               [name |-> node.name, args |-> args.value])
                   ELSE args.calls)
        ELSE Value(r.value,
                   Append(args.calls, [name |-> node.name, args |-> args.value]))
      Reduced(func, args) ==
        IF ~args.ok
        THEN Raise(ErrorCallingFunction(node.name, args.error.kind), args.calls)
        ELSE Called(func, args, Invoke(func, args.value))
      Found(func) ==
        IF func = Undefined THEN Raise(UnknownFunction(node.name), <<>>)
        ELSE Reduced(func, EvaluateArguments(node.arguments, functions, <<>>))
  IN  Found(Lookup(functions, node.name))

\* evaluateFunctionCall(node)
EvaluateFunctionCall(node, functions) ==
  LET Called(func, args, r) ==
        IF r.threw
        THEN Raise(ErrorCallingFunction(node.name, r.cause),
                   IF IsCallable(func)
                   THEN Append(args.calls,
                               [name |-> node.name, args |-> args.value])
                   ELSE args.calls)
        ELSE Value(r.value,
                   Append(args.calls, [name |-> node.name, args |-> args.value]))
      Reduced(func, args) ==
        IF ~args.ok THEN args ELSE Called(func, args, Invoke(func, args.value))
      Found(func) ==
        IF func = Undefined THEN Raise(UnknownFunction(node.name), <<>>)
        ELSE Reduced(func, EvaluateArguments(node.arguments, functions, <<>>))
  IN  Found(Lookup(functions, node.name))

\* EvaluateBinaryOp that evaluates the right operand although the left one
\* failed, and then reports the failure of the left one.
EvaluateBinaryOpBothOperands(node, functions) ==
  LET Apply(left, right) ==
        IF ~left.ok THEN Raise(left.error, left.calls \o right.calls)
        ELSE IF ~right.ok THEN Raise(right.error, left.calls \o right.calls)
        ELSE ApplyBinaryOperator(node.operator, left.value, right.value,
                                 left.calls \o right.calls)
      Right(left) == Apply(left, Evaluate(node.right, functions))
  IN  Right(Evaluate(node.left, functions))

\* evaluateBinaryOp(node)
EvaluateBinaryOp(node, functions) ==
  LET Apply(left, right) ==
        IF ~right.ok THEN Raise(right.error, left.calls \o right.calls)
        ELSE ApplyBinaryOperator(node.operator, left.value, right.value,
                                 left.calls \o right.calls)
      Right(left) ==
        IF ~left.ok THEN left ELSE Apply(left, Evaluate(node.right, functions))
  IN  Right(Evaluate(node.left, functions))

\* evaluateUnaryOp(node)
EvaluateUnaryOp(node, functions) ==
  LET Apply(operand) ==
        IF ~operand.ok THEN operand
        ELSE ApplyUnaryOperator(node.operator, operand.value, operand.calls)
  IN  Apply(Evaluate(node.operand, functions))

\* new Evaluator(functions) with a registry that defines "abs" where the
\* caller's does not.
NewEvaluatorWithDefaults(functions) ==
  [name \in DOMAIN functions \cup {<<"a", "b", "s">>} |->
     IF name \in DOMAIN functions THEN functions[name] ELSE "zero"]

\* new Evaluator(functions): the field holds the caller's registry itself,
\* neither a copy nor an extension of it.
NewEvaluator(functions) == functions

\* evaluate(node)
Evaluate(node, functions) ==
  CASE node.type = "Integer" -> Value(node.value, <<>>)
    [] node.type = "BinaryOp" -> EvaluateBinaryOp(node, functions)
    [] node.type = "UnaryOp" -> EvaluateUnaryOp(node, functions)
    [] node.type = "FunctionCall" -> EvaluateFunctionCall(node, functions)
    [] OTHER -> Raise(UnknownNodeType(node.type), <<>>)

\* A front end that returns the tree of the expression the text starts
\* with, whatever follows it.
ParseExpressionOfPrefix(expression) ==
  LET Returned(parsed) ==
        IF Failed(parsed.p.error)
        THEN [pc |-> "parseFailed", parser |-> parsed.p, ast |-> NoNode]
        ELSE [pc |-> "parsed", parser |-> parsed.p, ast |-> parsed.node]
      Constructed(parser0) ==
        IF Failed(parser0.error)
        THEN [pc |-> "newFailed", parser |-> parser0, ast |-> NoNode]
        ELSE Returned(Expr(LexerOn(expression), parser0))
  IN  Constructed(NewParser(expression))

\* The first two statements of evaluate in index.ts: new Parser(expression)
\* and parser.parse().
ParseExpression(expression) ==
  LET Returned(parsed) ==
        IF Failed(parsed.p.error)
        THEN [pc |-> "parseFailed", parser |-> parsed.p, ast |-> NoNode]
        ELSE [pc |-> "parsed", parser |-> parsed.p, ast |-> parsed.node]
      Constructed(parser0) ==
        IF Failed(parser0.error)
        THEN [pc |-> "newFailed", parser |-> parser0, ast |-> NoNode]
        ELSE Returned(Parse(expression, parser0))
  IN  Constructed(NewParser(expression))

\* The last two statements of evaluate in index.ts: new Evaluator(functions)
\* and evaluator.evaluate(ast), after the front end returned `front`.
EvaluateParsed(front, functions) ==
  LET Returned(r) ==
        [pc |-> IF r.ok THEN "done" ELSE "evalFailed",
         parser |-> front.parser, ast |-> front.ast,
         functions |-> NewEvaluator(functions), given |-> functions,
         result |-> r.value, error |-> r.error, calls |-> r.calls]
  IN  IF front.pc # "parsed"
      THEN [pc |-> front.pc, parser |-> front.parser, ast |-> NoNode,
            functions |-> functions, given |-> functions,
            result |-> NoValue,
            error |-> front.parser.error, calls |-> <<>>]
      ELSE Returned(Evaluate(front.ast, NewEvaluator(functions)))

\* evaluate(expression, functions) of index.ts: the stage that ended the call
\* and what it left.
EvaluateExpression(expression, functions) ==
  EvaluateParsed(ParseExpression(expression), functions)

\* evaluateExpression(expression): new Lexer(expression), new Parser(lexer),
\* parser.parse() and new Evaluator().evaluate(ast), the Evaluator on the
\* default registry; the stage that ended the call and what it left.  The
\* Evaluator has no case for the Number nodes of this Parser.
evaluateExpression(expression) ==
  LET Evaluated(parsed, r) ==
        [pc |-> IF r.ok THEN "lexerDone" ELSE "lexerEvalFailed",
         parser |-> parsed.p, ast |-> parsed.node,
         functions |-> NewEvaluator(EmptyRegistry),
         result |-> r.value, error |-> r.error, calls |-> r.calls]
      Stopped(stage, parser0) ==
        [pc |-> stage, parser |-> parser0, ast |-> NoNode,
         functions |-> EmptyRegistry, result |-> NoValue,
         error |-> parser0.error, calls |-> <<>>]
      Returned(parsed) ==
        IF Failed(parsed.p.error) THEN Stopped("lexerParseFailed", parsed.p)
        ELSE Evaluated(parsed,
                       Evaluate(parsed.node, NewEvaluator(EmptyRegistry)))
      Constructed(parser0) ==
        IF Failed(parser0.error) THEN Stopped("lexerNewFailed", parser0)
        ELSE Returned(LexerParserParse(expression, parser0))
  IN  Constructed(NewLexerParser(expression))

(***************************************************************************)
(* Inputs: the texts and the registries a caller passes.                   *)
(***************************************************************************)
RECURSIVE Concat(_)
Concat(parts) ==
  IF Len(parts) = 0 THEN <<>> ELSE Head(parts) \o Concat(Tail(parts))

StringsUpTo(alphabet, n) == UNION {[1..k -> alphabet] : k \in 0..n}

\* Every text of at most MaxLen characters over these characters.
SmallAlphabet == {"0", "1", "-", "/", "(", ")", "f", " "}

SmallTexts == StringsUpTo(SmallAlphabet, MaxLen)

\* Every text of at most MaxSigns characters over signs, operators and digits.
SignAlphabet == {"2", "3", "+", "-", "*", "/"}

SignTexts == StringsUpTo(SignAlphabet, MaxSigns)

\* Every operator chain x1 op1 x2 ... xn of at most MaxOperands operands.
RECURSIVE ChainsOf(_)
ChainsOf(n) ==
  IF n = 1 THEN {<<x>> : x \in {"2", "3"}}
  ELSE {c \o <<operator, x>> :
          c \in ChainsOf(n - 1), operator \in {"+", "-", "*", "/"},
          x \in {"2", "3"}}

ChainTexts == UNION {ChainsOf(n) : n \in 1..MaxOperands}

Named(name, func) == name :> func

\* A registry a caller passes: the host functions under names of one letter.
TestRegistry ==
  Named(<<"f">>, "random") @@ Named(<<"z">>, "zero")
  @@ Named(<<"s">>, "sum") @@ Named(<<"g">>, "fail")

Registries ==
  {EmptyRegistry, TestRegistry}
  \cup {Named(<<"f">>, func) : func \in HostFunctions}

\* The registries a text is evaluated with: the registry is looked at only
\* at a call, so a text without an identifier gets the two of the tests.
RegistriesFor(expression) ==
  IF \E i \in 1..Len(expression) : expression[i] \in IdentifierStart
  THEN Registries
  ELSE {EmptyRegistry, TestRegistry}


\* The decimal text of an integer, a negative one with a leading minus sign.
RECURSIVE NatText(_)
NatText(n) ==
  IF n < 10 THEN <<DigitChar(n)>>
  ELSE Append(NatText(n \div 10), DigitChar(n % 10))

IntText(n) == IF n < 0 THEN <<"-">> \o NatText(-n) ELSE NatText(n)

BinaryText(a, operator, b) == IntText(a) \o <<" ", operator, " ">> \o IntText(b)

IntRange == (0 - MaxInt)..MaxInt

\* The decimal texts of the integers of IntRange, and "a op b" over them.
IntTexts ==
  {IntText(n) : n \in IntRange}
  \cup {BinaryText(a, operator, b) :
          a \in IntRange, b \in IntRange, operator \in {"+", "-", "*"}}

\* The texts of the tests and of the documentation's examples.
Examples ==
  {
    <<"2", " ", "+", " ", "3", " ", "*", " ", "4">>,
    <<"1", "0", " ", "-", " ", "6", " ", "/", " ", "2">>,
    <<"1", "0", " ", "-", " ", "3", " ", "-", " ", "2">>,
    <<"2", " ", "+", " ", "3", " ", "*", " ", "4", " ", "-", " ", "5", " ", "/", " ", "5">>,
    <<"(", "2", " ", "+", " ", "3", ")", " ", "*", " ", "4">>,
    <<"(", "(", "2", " ", "+", " ", "3", ")", " ", "*", " ", "4", ")">>,
    <<"-", "(", "5", " ", "+", " ", "3", ")">>,
    <<"-", "-", "5">>,
    <<"-", "+", "5">>,
    <<"-", "5", " ", "+", " ", "3">>,
    <<"5", " ", "/", " ", "0">>,
    <<"7", " ", "/", " ", "2">>,
    <<"7", " ", "/", " ", "-", "2">>,
    <<"7", "/", "(", "3", "-", "3", ")">>,
    <<"7", "/", "(", "0", "*", "5", ")">>,
    <<"7", " ", "/", " ", "-", "0">>,
    <<"7", "/", "z", "(", ")">>,
    <<"z", "(", ")", "/", "z", "(", ")">>,
    <<"1", "0", "0", " ", "/", " ", "5", " ", "/", " ", "2">>,
    <<"f", "(", ")">>,
    <<"s", "(", "1", "0", ",", " ", "2", "0", ")">>,
    <<"s", "(", "1", ",", " ", "f", "(", ")", ",", " ", "2", ")">>,
    <<"g", "(", ")">>,
    <<"t", "o", "S", "t", "r", "i", "n", "g", "(", ")">>,
    <<"v", "a", "l", "u", "e", "O", "f", "(", ")">>,
    <<"_", "_", "p", "r", "o", "t", "o", "_", "_", "(", ")">>,
    <<"m", "a", "x", "(", "1", ",", " ", "2", ")">>,
    <<"2", " ", "+", " ", "a">>,
    <<"(", "2", " ", "+", " ", "3">>,
    <<"2", " ", "+">>,
    <<"1", " ", "2">>,
    <<"1", " ", ")">>,
    <<"1", " ", ",", " ", "2">>,
    <<"f", "(", ")", " ", "3">>,
    <<"1", " ", "f">>,
    <<"1", " ", "f", "(", ")">>,
    <<"(", "1", " ", "f", ")">>,
    <<"f", " ", "1">>,
    <<"f", "(", "g", ")">>,
    <<"f", " ", "+", " ", "1">>,
    <<"1", " ", "+", " ", "m", "a", "x">>,
    <<"(", "(", "(", "(", "1", " ", "+", " ", "2", ")", ")", ")", ")">>,
    <<"@">>,
    <<"2", " ", "@", " ", "3">>,
    <<"1", " ", "+", " ", "@">>,
    <<"f", "(", "@", ")">>,
    <<"1", " ", ")", " ", "@">>,
    <<"9", "0", "0", "7", "1", "9", "9", "2", "5", "4", "7", "4", "0", "9",
      "9", "3">>,
    <<"0", "1", "2", "3", "4", "5", "6", "7", "8", "9", "0">>,
    <<"", "1">>,
    <<"1", " ", "+", "U+2003", "2", "﻿">>,
    <<"1", " ", "*", "U+3000", " ", "2">>,
    <<"1", " ", "@">>,
    <<"1", " ", "2", " ", " ", "$">>,
    <<"s", "(", "s", "(", "g", "(", ")", ")", ")">>,
    <<"s", "(", "1", "/", "0", ")">>,
    <<"s", "(", "f", "(", ")", ",", " ", "s", "(", "h", "(", ")", ")", ")">>,
    <<"h", "(", "g", "(", ")", ")">>,
    <<"h", "(", "1", "/", "0", ")">>,
    <<"h", "(", "f", "(", ")", ",", " ", "1", "/", "0", ")">>,
    <<"v", "a", "l", "u", "e", "O", "f", "(", "1", "/", "0", ")">>,
    <<"t", "o", "S", "t", "r", "i", "n", "g", "(", "g", "(", ")", ")">>,
    <<"f", "(", ")", " ", "@">>,
    <<"f", "(", ")", " ", "+", " ", ")">>,
    <<"f", "(", ")", " ", ")">>,
    <<"s", "(", "f", "(", ")", ",", " ", "z", "(", ")", ")", " ", "1">>,
    <<"1", "2", "a", "b", "c">>,
    <<"m", "y", "_", "f", "u", "n", "c", "_", "1", "2", "3">>,
    <<"_", "a", "1", "(", "0", "0", "7", ")">>,
    <<"a", "1", " ", "2", "3", " ", "_">>,
    <<"3", ".", "5">>,
    <<"2", " ", "^", " ", "3">>,
    <<" ", "\t", "$">>,
    <<"x", " ", "=", " ", "1">>,
    <<"1", " ", "%", " ", "2", " ", "@">>,
    <<"f", "(", ",", ")">>,
    <<"s", "(", "1", ",", ")">>,
    <<"s", "(", "1", ",", ",", "2", ")">>,
    <<"s", "(", ",", "1", ")">>,
    <<"s", "(", "s", "(", "1", ",", "2", ")", ",", "3", ")">>,
    <<"s", "(", "1", ",", " ", "s", "(", "2", ",", "3", ")", ")">>,
    <<"s", "(", "(", "1", ")", ",", "2", ")">>,
    <<"f", "(", "(", "1", ",", "2", ")", ")">>,
    <<"s", "(", "1", " ", "2", ")">>,
    <<"s", "(", "1", ",", "2">>,
    <<"s", "(", "0", ",", "1", ")">>,
    <<"-", "(", "1", " ", "+", " ", "2", ")", " ", "*", " ",
      "s", "(", "0", ",", "1", ")">>,
    <<"s", "(", "f", "(", ")", ",", " ", "z", "(", ")", ")">>,
    <<"s", "(", "z", "(", ")", ",", " ", "s", "(", "f", "(", ")", ",",
      " ", "1", ")", ")", " ", "+", " ", "f", "(", ")">>,
    <<"z", "(", ")", " ", "-", " ", "f", "(", ")">>,
    <<"s", "(", "1", ",", " ", "g", "(", ")", ")">>,
    <<"g", "(", ")", " ", "+", " ", "f", "(", ")">>,
    <<"f", "(", ")", " ", "+", " ", "1", "/", "0", " ", "+", " ", "g", "(", ")">>,
    <<"f", "(", ")", " ", "+", " ", "g", "(", ")", " ", "+", " ", "f", "(", ")">>,
    <<"s", "(", "f", "(", ")", ",", " ", "h", "(", ")", ",", " ", "f", "(", ")", ")">>
  }

\* Texts whose values are no integers: calls of the members the registry
\* inherits, integers of ten digits, quotients.
ValueExamples ==
  {
    <<"c", "o", "n", "s", "t", "r", "u", "c", "t", "o", "r", "(", ")">>,
    <<"c", "o", "n", "s", "t", "r", "u", "c", "t", "o", "r", "(", "1", ")",
      " ", "+", " ", "1">>,
    <<"c", "o", "n", "s", "t", "r", "u", "c", "t", "o", "r", "(", ")", " ",
      "+", " ", "1">>,
    <<"i", "s", "P", "r", "o", "t", "o", "t", "y", "p", "e", "O", "f", "(",
      "1", ")">>,
    <<"i", "s", "P", "r", "o", "t", "o", "t", "y", "p", "e", "O", "f", "(",
      "c", "o", "n", "s", "t", "r", "u", "c", "t", "o", "r", "(", ")", ")">>,
    <<"1", " ", "/", " ", "i", "s", "P", "r", "o", "t", "o", "t", "y", "p",
      "e", "O", "f", "(", ")">>,
    <<"h", "a", "s", "O", "w", "n", "P", "r", "o", "p", "e", "r", "t", "y",
      "(", "1", ")">>,
    <<"t", "o", "L", "o", "c", "a", "l", "e", "S", "t", "r", "i", "n", "g",
      "(", ")">>,
    <<"p", "r", "o", "p", "e", "r", "t", "y", "I", "s", "E", "n", "u", "m",
      "e", "r", "a", "b", "l", "e", "(", ")">>,
    <<"_", "_", "d", "e", "f", "i", "n", "e", "G", "e", "t", "t", "e", "r",
      "_", "_", "(", ")">>,
    <<"_", "_", "d", "e", "f", "i", "n", "e", "S", "e", "t", "t", "e", "r",
      "_", "_", "(", ")">>,
    <<"_", "_", "l", "o", "o", "k", "u", "p", "G", "e", "t", "t", "e", "r",
      "_", "_", "(", ")">>,
    <<"_", "_", "l", "o", "o", "k", "u", "p", "S", "e", "t", "t", "e", "r",
      "_", "_", "(", ")">>,
    <<"s", "(", "t", "o", "S", "t", "r", "i", "n", "g", "(", ")", ")">>,
    <<"t", "o", "S", "t", "r", "i", "n", "g", "(", ")", " ", "+", " ", "0">>,
    <<"-", "t", "o", "S", "t", "r", "i", "n", "g", "(", ")">>,
    <<"+", "t", "o", "S", "t", "r", "i", "n", "g", "(", ")">>,
    <<"t", "o", "S", "t", "r", "i", "n", "g", "(", ")", " ", "*", " ", "2">>,
    <<"1", " ", "/", " ", "t", "o", "S", "t", "r", "i", "n", "g", "(", ")">>,
    <<"2", " ", "-", " ", "t", "o", "S", "t", "r", "i", "n", "g", "(", ")">>,
    <<"-", "1", "2", "3", "4", "5", "6", "7", "8", "9", "0">>,
    <<"1", "2", "3", "4", "5", "6", "7", "8", "9", "0", "+", "1">>,
    <<"1", "/", "1", "2", "3", "4", "5", "6", "7", "8", "9", "0">>,
    <<"1", "0", "1", "2", "3", "4", "5", "6", "7", "/", "1", "0", "1", "2",
      "3", "4", "5", "6", "8">>,
    <<"1", "0", "1", "2", "3", "4", "5", "6", "6", "/", "1", "0", "1", "2",
      "3", "4", "5", "6", "7">>,
    <<"1", " ", "+", " ", "2", "/", "3">>,
    <<"1", " ", "-", " ", "1", "/", "3">>,
    <<"3", " ", "*", " ", "(", "1", "/", "1", "0", ")">>,
    <<"1", "/", "(", "1", "/", "4", "9", ")">>,
    <<"s", "(", "1", "/", "1", "0", ",", " ", "2", "/", "1", "0", ")">>,
    <<"1", "/", "3", " ", "+", " ", "t", "o", "S", "t", "r", "i", "n", "g",
      "(", ")">>
  }

Texts ==
  SmallTexts \cup SignTexts \cup ChainTexts \cup IntTexts \cup Examples
  \cup ValueExamples

\* Texts two callers work on side by side.
PairTexts == StringsUpTo(SmallAlphabet, MaxPairLen) \cup Examples

(***************************************************************************)
(* State: one caller, who works either with a Lexer of its own or with a   *)
(* Parser and an Evaluator (the steps of evaluate in index.ts).            *)
(***************************************************************************)
VARIABLES
  text,       \* the expression text
  pc,         \* how far the caller got
  lexer,      \* cursor of the caller's own Lexer
  tokens,     \* tokens its getNextToken calls returned, in order
  tokenized,  \* what its tokenize call returned
  parser,     \* the Parser: cursor of its lexer, current token
  ast,        \* what parse() returned
  functions,  \* the registry object the Evaluator holds, as it is now
  result,     \* what evaluate() returned
  error,      \* the error the last call threw
  calls,      \* registry functions invoked, with their arguments, in order
  given,      \* the registry as it was when the caller passed it
  peer        \* a second caller with a Parser and a Lexer of its own

vars == <<text, pc, lexer, tokens, tokenized, parser, ast, functions, result,
          error, calls, given, peer>>

NoParser == [pos |-> 0, currentToken |-> Token("none", "", 0), error |-> NoError]

\* The second caller before it did anything: no Parser yet, and a Lexer of
\* its own at the start of the text (eofs counts the EOF tokens it returned).
NoPeer ==
  [pc |-> "start", parser |-> NoParser, ast |-> NoNode, lexer |-> 0,
   lexerError |-> NoError, eofs |-> 0]

Init ==
  /\ text \in Texts
  /\ pc = "start"
  /\ lexer = 0
  /\ tokens = <<>>
  /\ tokenized = <<>>
  /\ parser = NoParser
  /\ ast = NoNode
  /\ functions = EmptyRegistry
  /\ result = NoValue
  /\ error = NoError
  /\ calls = <<>>
  /\ given = EmptyRegistry
  /\ peer = NoPeer

EofCalls == Cardinality({i \in 1..Len(tokens) : tokens[i].type = "EOF"})

\* new Lexer(text)
LexerNew ==
  /\ pc = "start"
  /\ pc' = "lexer"
  /\ lexer' = 0
  /\ UNCHANGED <<text, tokens, tokenized, parser, ast, functions, result,
                 error, calls, given, peer>>

\* lexer.getNextToken()
LexerGetNextToken ==
  /\ pc = "lexer"
  /\ EofCalls < MaxEofCalls
  /\ LET Returned(r) ==
           /\ lexer' = r.pos
           /\ error' = r.error
           /\ tokens' = IF Failed(r.error) THEN tokens
                                           ELSE Append(tokens, r.token)
     IN  Returned(GetNextToken(text, lexer))
  /\ UNCHANGED <<text, pc, tokenized, parser, ast, functions, result, calls,
                 given, peer>>

\* lexer.tokenize()
LexerTokenize ==
  /\ pc = "lexer"
  /\ LET Returned(r) ==
           /\ lexer' = r.pos
           /\ error' = r.error
           /\ tokenized' = IF Failed(r.error) THEN <<>> ELSE r.tokens
     IN  Returned(Tokenize(text, lexer))
  /\ pc' = "tokenized"
  /\ UNCHANGED <<text, tokens, parser, ast, functions, result, calls, given,
                 peer>>

\* new Parser(text)
ParserNew ==
  /\ pc = "start"
  /\ parser' = NewParser(text)
  /\ error' = parser'.error
  /\ pc' = IF Failed(parser'.error) THEN "newFailed" ELSE "parser"
  /\ UNCHANGED <<text, lexer, tokens, tokenized, ast, functions, result, calls,
                 given, peer>>

\* parser.parse()
ParserParse ==
  /\ pc = "parser"
  /\ LET Returned(r) ==
           /\ parser' = r.p
           /\ ast' = r.node
           /\ error' = r.p.error
           /\ pc' = IF Failed(r.p.error) THEN "parseFailed" ELSE "parsed"
     IN  Returned(Parse(text, parser))
  /\ UNCHANGED <<text, lexer, tokens, tokenized, functions, result, calls,
                 given, peer>>

\* new Evaluator(functions).evaluate(ast)
EvaluatorEvaluate ==
  /\ pc = "parsed"
  /\ \E registry \in RegistriesFor(text) :
       LET Returned(r) ==
             /\ functions' = NewEvaluator(registry)
             /\ given' = registry
             /\ result' = r.value
             /\ error' = r.error
             /\ calls' = r.calls
             /\ pc' = IF r.ok THEN "done" ELSE "evalFailed"
       IN  Returned(Evaluate(ast, NewEvaluator(registry)))
  /\ UNCHANGED <<text, lexer, tokens, tokenized, parser, ast, peer>>

\* evaluate(text, functions) of index.ts, as one call.
CallEvaluate ==
  /\ pc = "start"
  /\ LET Returned(r) ==
           /\ functions' = r.functions
           /\ given' = r.given
           /\ parser' = r.parser
           /\ ast' = r.ast
           /\ result' = r.result
           /\ error' = r.error
           /\ calls' = r.calls
           /\ pc' = r.pc
         Called(front) ==
           \E registry \in IF front.pc = "parsed"
                            THEN RegistriesFor(text)
                            ELSE {EmptyRegistry, TestRegistry} :
             Returned(EvaluateParsed(front, registry))
     IN  Called(ParseExpression(text))
  /\ UNCHANGED <<text, lexer, tokens, tokenized, peer>>

\* new Parser(new Lexer(text)), the Parser constructed from a Lexer
ParserOfLexerNew ==
  /\ pc = "start"
  /\ parser' = NewLexerParser(text)
  /\ error' = parser'.error
  /\ pc' = IF Failed(parser'.error) THEN "lexerNewFailed" ELSE "lexerParser"
  /\ UNCHANGED <<text, lexer, tokens, tokenized, ast, functions, result, calls,
                 given, peer>>

\* parser.parse() of the Parser constructed from a Lexer
ParserOfLexerParse ==
  /\ pc = "lexerParser"
  /\ LET Returned(r) ==
           /\ parser' = r.p
           /\ ast' = r.node
           /\ error' = r.p.error
           /\ pc' = IF Failed(r.p.error) THEN "lexerParseFailed"
                                         ELSE "lexerParsed"
     IN  Returned(LexerParserParse(text, parser))
  /\ UNCHANGED <<text, lexer, tokens, tokenized, functions, result, calls,
                 given, peer>>

\* new Evaluator().evaluate(ast) on the tree of the Parser constructed from
\* a Lexer
EvaluatorOfLexerEvaluate ==
  /\ pc = "lexerParsed"
  /\ LET Returned(r) ==
           /\ functions' = NewEvaluator(EmptyRegistry)
           /\ result' = r.value
           /\ error' = r.error
           /\ calls' = r.calls
           /\ pc' = IF r.ok THEN "lexerDone" ELSE "lexerEvalFailed"
     IN  Returned(Evaluate(ast, NewEvaluator(EmptyRegistry)))
  /\ UNCHANGED <<text, lexer, tokens, tokenized, parser, ast, given, peer>>

\* evaluateExpression(text), as one call.
CallEvaluateExpression ==
  /\ pc = "start"
  /\ LET Returned(r) ==
           /\ functions' = r.functions
           /\ parser' = r.parser
           /\ ast' = r.ast
           /\ result' = r.result
           /\ error' = r.error
           /\ calls' = r.calls
           /\ pc' = r.pc
     IN  Returned(evaluateExpression(text))
  /\ UNCHANGED <<text, lexer, tokens, tokenized, given, peer>>

\* The second caller: new Parser(text)
PeerParserNew ==
  /\ peer.pc = "start"
  /\ LET Constructed(p) ==
           peer' = [peer EXCEPT
                      !.parser = p,
                      !.pc = IF Failed(p.error) THEN "newFailed" ELSE "parser"]
     IN  Constructed(NewParser(text))
  /\ UNCHANGED <<text, pc, lexer, tokens, tokenized, parser, ast, functions,
                 result, error, calls, given>>

\* The second caller: parser.parse(), reading through the first caller's
\* lexer.
PeerParseOnSharedLexer ==
  /\ peer.pc = "parser"
  /\ LET Returned(r) ==
           peer' = [peer EXCEPT
                      !.parser = r.p,
                      !.ast = r.node,
                      !.pc = IF Failed(r.p.error) THEN "parseFailed"
                                                  ELSE "parsed"]
     IN  Returned(Parse(text, [peer.parser EXCEPT !.pos = parser.pos]))
  /\ UNCHANGED <<text, pc, lexer, tokens, tokenized, parser, ast, functions,
                 result, error, calls, given>>

\* The second caller: parser.parse(), on the fields of its own Parser.
PeerParse ==
  /\ peer.pc = "parser"
  /\ LET Returned(r) ==
           peer' = [peer EXCEPT
                      !.parser = r.p,
                      !.ast = r.node,
                      !.pc = IF Failed(r.p.error) THEN "parseFailed"
                                                  ELSE "parsed"]
     IN  Returned(Parse(text, peer.parser))
  /\ UNCHANGED <<text, pc, lexer, tokens, tokenized, parser, ast, functions,
                 result, error, calls, given>>

\* The second caller: getNextToken() on a Lexer of its own.
PeerGetNextToken ==
  /\ peer.eofs < MaxEofCalls
  /\ LET Returned(r) ==
           peer' = [peer EXCEPT
                      !.lexer = r.pos,
                      !.lexerError = r.error,
                      !.eofs = IF ~Failed(r.error) /\ r.token.type = "EOF"
                               THEN @ + 1 ELSE @]
     IN  Returned(GetNextToken(text, peer.lexer))
  /\ UNCHANGED <<text, pc, lexer, tokens, tokenized, parser, ast, functions,
                 result, error, calls, given>>

Next ==
  \/ ParserNew
  \/ ParserParse
  \/ EvaluatorEvaluate
  \/ CallEvaluate

\* A caller of a Lexer of its own.
LexerNext ==
  \/ LexerNew
  \/ LexerGetNextToken
  \/ LexerTokenize

\* Two callers side by side, each call running to its end before the next
\* one starts.
PairNext ==
  \/ ParserNew
  \/ ParserParse
  \/ EvaluatorEvaluate
  \/ CallEvaluate
  \/ PeerParserNew
  \/ PeerParse
  \/ PeerGetNextToken

PairInit == Init /\ text \in PairTexts

\* A caller of one of the two Parser classes of parser.ts, or of
\* evaluateExpression.
ParsersNext ==
  \/ ParserNew
  \/ ParserParse
  \/ ParserOfLexerNew
  \/ ParserOfLexerParse
  \/ EvaluatorOfLexerEvaluate
  \/ CallEvaluateExpression

\* A caller that goes on until it has what it called for.
LiveNext ==
  \/ LexerNew
  \/ LexerGetNextToken
  \/ LexerTokenize
  \/ ParserNew
  \/ ParserParse
  \/ EvaluatorEvaluate
  \/ CallEvaluate

Spec == Init /\ [][Next]_vars

RECURSIVE LongIntegerFrom(_, _)
\* The lexer reads an INTEGER token of more than SmallDigits digits from
\* cursor pos on, before the end of the text and before it throws.
LongIntegerFrom(t, pos) ==
  LET Read(r) ==
        /\ ~Failed(r.error)
        /\ r.token.type # "EOF"
        /\ \/ /\ r.token.type = "INTEGER"
              /\ r.pos - r.token.position > SmallDigits
           \/ LongIntegerFrom(t, r.pos)
  IN  Read(GetNextToken(t, pos))

\* The text holds an integer of more than SmallDigits digits that the lexer
\* reads.
LongInteger(t) == LongIntegerFrom(t, 0)

\* The texts of the callers whose integers are below 10^9.
LiveInit == PairInit /\ ~LongInteger(text)

\* Between two calls the caller does nothing else: a getNextToken call that
\* can be made is made.
LiveSpec == LiveInit /\ [][LiveNext]_vars /\ WF_vars(LexerGetNextToken)

PairSpec == PairInit /\ [][PairNext]_vars

LexerSpec == Init /\ [][LexerNext]_vars

ParsersSpec == Init /\ [][ParsersNext]_vars

(***************************************************************************)
(* Properties                                                              *)
(***************************************************************************)
Evaluated == pc \in {"done", "evalFailed"}

\* parse() has just returned a tree (the evaluator leaves ast as it is).
Parsed == pc = "parsed"

RECURSIVE Subtrees(_)
RECURSIVE SubtreesOfAll(_)
\* Every node of the tree rooted at node.
Subtrees(node) ==
  {node} \cup
  CASE node.type = "Integer" -> {}
    [] node.type = "BinaryOp" -> Subtrees(node.left) \cup Subtrees(node.right)
    [] node.type = "UnaryOp" -> Subtrees(node.operand)
    [] node.type = "FunctionCall" -> SubtreesOfAll(node.arguments)

SubtreesOfAll(nodes) ==
  IF Len(nodes) = 0 THEN {}
  ELSE Subtrees(Head(nodes)) \cup SubtreesOfAll(Tail(nodes))

IsDivision(node) == node.type = "BinaryOp" /\ node.operator = "/"

\* C1: with the registry omitted or empty, a call to any function name fails
\* with the unknown-function error and nothing is invoked.
C1_EmptyRegistryAlwaysUnknown ==
  (Evaluated /\ functions = EmptyRegistry) =>
    /\ calls = <<>>
    /\ ast.type = "FunctionCall" =>
         /\ pc = "evalFailed"
         /\ error.kind = "Unknown function"
         /\ error.name = ast.name

\* C2: a division whose right operand evaluates to exactly 0 fails with the
\* division-by-zero error, whatever the numerator and however the zero is
\* reached; it never returns a number.
C2_DivisionByZero ==
  Evaluated =>
    /\ \A s \in Subtrees(ast) :
         IsDivision(s) =>
           LET left == Evaluate(s.left, functions)
               right == Evaluate(s.right, functions)
               whole == Evaluate(s, functions)
           IN  (left.ok /\ right.ok /\ IsZero(right.value)) =>
                 (~whole.ok /\ whole.error = DivisionByZero)
    /\ (/\ IsDivision(ast)
        /\ Evaluate(ast.left, functions).ok
        /\ Evaluate(ast.right, functions).ok
        /\ IsZero(Evaluate(ast.right, functions).value)) =>
         (pc = "evalFailed" /\ error = DivisionByZero)

\* C2 witness: a division by a registry function that returned 0 has failed
\* with the division-by-zero error.
C2_Witness ==
  /\ pc = "evalFailed"
  /\ error = DivisionByZero
  /\ IsDivision(ast)
  /\ ast.right.type = "FunctionCall"
  /\ Len(calls) = 1

IsArithmetic(node) ==
  \A s \in Subtrees(node) : s.type # "FunctionCall"

\* The integer quotient of a by b, truncated toward zero.
TruncatedQuotient(a, b) ==
  IF (a < 0) = (b < 0) THEN Abs(a) \div Abs(b) ELSE 0 - (Abs(a) \div Abs(b))

\* An integer literal below 10^9, whose value is held as the integer it is.
SmallLiteral(node) == node.type = "Integer" /\ IsSmall(node.value)

\* C3: division is integer division truncated toward zero, so every
\* expression built from integer literals and + - * / yields an integer.
C3_IntegerDivision ==
  (pc = "done" /\ IsArithmetic(ast)) =>
    /\ IsInteger(result)
    /\ (IsDivision(ast) /\ SmallLiteral(ast.left) /\ SmallLiteral(ast.right)) =>
         NumEq(result,
               Num(TruncatedQuotient(ast.left.value.n, ast.right.value.n)))

\* The characters of the decimal texts and of "a op b".
IntTextChars == Digits \cup {"-", "+", "*", " "}

IsPrefix(s, t) == Len(s) <= Len(t) /\ SubSeq(t, 1, Len(s)) = s

ApplyInteger(operator, a, b) ==
  CASE operator = "+" -> a + b
    [] operator = "-" -> a - b
    [] operator = "*" -> a * b

\* C4: for all integers n, a, b of the range, evaluate of the decimal text
\* of n is n, and evaluate of "a + b", "a - b", "a * b" is a+b, a-b, a*b.
C4_IntegerRoundTripAndArithmetic ==
  (pc # "start" /\ \A i \in 1..Len(text) : text[i] \in IntTextChars) =>
    /\ \A n \in IntRange :
         text = IntText(n) =>
           /\ pc \in {"parser", "parsed", "done"}
           /\ pc = "done" => NumEq(result, Num(n))
    /\ \A a \in IntRange :
         IsPrefix(IntText(a) \o <<" ">>, text) =>
           \A b \in IntRange, operator \in {"+", "-", "*"} :
             text = BinaryText(a, operator, b) =>
               /\ pc \in {"parser", "parsed", "done"}
               /\ pc = "done" =>
                    NumEq(result, Num(ApplyInteger(operator, a, b)))

\* C4 witness: "-3 * -4" has evaluated to 12.
C4_Witness ==
  /\ pc = "done"
  /\ text = BinaryText(0 - 3, "*", 0 - 4)
  /\ NumEq(result, Num(12))

ParenFree(t) == \A i \in 1..Len(t) : t[i] \notin {"(", ")"}

Additive(node) == node.type = "BinaryOp" /\ node.operator \in {"+", "-"}

Multiplicative(node) == node.type = "BinaryOp" /\ node.operator \in {"*", "/"}

OperatorType(operator) ==
  CASE operator = "+" -> "PLUS" [] operator = "-" -> "MINUS"
    [] operator = "*" -> "MUL" [] operator = "/" -> "DIV"

RECURSIVE InOrderTypes(_)
\* The token kinds of a parenthesis-free tree, read left to right.
InOrderTypes(node) ==
  CASE node.type = "Integer" -> <<"INTEGER">>
    [] node.type = "UnaryOp" ->
         <<OperatorType(node.operator)>> \o InOrderTypes(node.operand)
    [] node.type = "BinaryOp" ->
         InOrderTypes(node.left) \o <<OperatorType(node.operator)>>
           \o InOrderTypes(node.right)
    [] node.type = "FunctionCall" -> <<"IDENTIFIER">>

RECURSIVE InOrderValues(_)
\* The integer literals of a parenthesis-free tree, read left to right.
InOrderValues(node) ==
  CASE node.type = "Integer" -> <<node.value>>
    [] node.type = "UnaryOp" -> InOrderValues(node.operand)
    [] node.type = "BinaryOp" ->
         InOrderValues(node.left) \o InOrderValues(node.right)
    [] node.type = "FunctionCall" -> <<>>

\* The tokens of a text before its EOF (of a text that lexes).
TokensOf(t) ==
  LET all == Tokenize(t, 0).tokens IN SubSeq(all, 1, Len(all) - 1)

TypesOf(toks) == [i \in 1..Len(toks) |-> toks[i].type]

IntegerValuesOf(toks) ==
  LET ints == SelectSeq(toks, LAMBDA tok : tok.type = "INTEGER")
  IN  [i \in 1..Len(ints) |-> ints[i].value]

\* A + or - token that stands between two operands of a parenthesis-free text.
BinaryAdditiveAt(toks, i) ==
  i > 1 /\ toks[i].type \in {"PLUS", "MINUS"} /\ toks[i - 1].type = "INTEGER"

\* C5: * and / bind tighter than + and -: in the tree of a parenthesis-free
\* text no * or / node has a + or - node as a child, every operator and
\* operand of the text is in the tree in source order, and a text with a
\* binary + or - has a + or - node as its root ("2 + 3 * 4" is +(2, *(3, 4))).
C5_Precedence ==
  (Parsed /\ ParenFree(text)) =>
    LET toks == TokensOf(text)
    IN  /\ \A s \in Subtrees(ast) :
             Multiplicative(s) => (~Additive(s.left) /\ ~Additive(s.right))
        /\ InOrderTypes(ast) = TypesOf(toks)
        /\ InOrderValues(ast) = IntegerValuesOf(toks)
        /\ (\E i \in 1..Len(toks) : BinaryAdditiveAt(toks, i)) => Additive(ast)
        /\ text = <<"2", " ", "+", " ", "3", " ", "*", " ", "4">> =>
             ast = createBinaryOpNode("+", createIntegerNode(Num(2)),
                     createBinaryOpNode("*", createIntegerNode(Num(3)),
                                        createIntegerNode(Num(4))))

\* C5 witness: "2 + 3 * 4 - 5 / 5" has parsed, the * and the / below the
\* + and the -.
C5_Witness ==
  /\ pc = "parsed"
  /\ text = <<"2", " ", "+", " ", "3", " ", "*", " ", "4", " ", "-", " ", "5", " ", "/", " ", "5">>
  /\ Additive(ast) /\ Additive(ast.left)
  /\ Multiplicative(ast.right) /\ Multiplicative(ast.left.right)

\* An operator chain: digits at the odd places, operators at the even ones.
IsChain(t) ==
  /\ Len(t) % 2 = 1
  /\ \A i \in 1..Len(t) :
       IF i % 2 = 1 THEN t[i] \in Digits ELSE t[i] \in {"+", "-", "*", "/"}

OneLevel(t) ==
  \/ \A i \in 1..Len(t) : i % 2 = 0 => t[i] \in {"+", "-"}
  \/ \A i \in 1..Len(t) : i % 2 = 0 => t[i] \in {"*", "/"}

RECURSIVE LeftFold(_)
\* ((x1 op1 x2) op2 x3) ... of an operator chain.
LeftFold(t) ==
  IF Len(t) = 1 THEN createIntegerNode(Num(DigitValue(t[1])))
  ELSE createBinaryOpNode(t[Len(t) - 1], LeftFold(SubSeq(t, 1, Len(t) - 2)),
                          createIntegerNode(Num(DigitValue(t[Len(t)]))))

\* C6: operators of one precedence level associate to the left: in the tree
\* of a parenthesis-free text the right child of a + or - node is no + or -
\* node and the right child of a * or / node is no binary node, a chain
\* x1 op1 x2 ... xn of one level parses to ((x1 op1 x2) op2 x3) ..., and
\* "10 - 3 - 2" evaluates to 5.
C6_LeftAssociative ==
  /\ (Parsed /\ ParenFree(text)) =>
       /\ \A s \in Subtrees(ast) :
            /\ Additive(s) => ~Additive(s.right)
            /\ Multiplicative(s) => s.right.type # "BinaryOp"
       /\ (IsChain(text) /\ OneLevel(text)) => ast = LeftFold(text)
  /\ (text = <<"1", "0", " ", "-", " ", "3", " ", "-", " ", "2">> /\ pc # "start") =>
       /\ pc \in {"parser", "parsed", "done"}
       /\ pc = "done" => NumEq(result, Num(5))

\* C6 witness: "10 - 3 - 2" has evaluated to 5.
C6_Witness ==
  /\ pc = "done"
  /\ text = <<"1", "0", " ", "-", " ", "3", " ", "-", " ", "2">>
  /\ NumEq(result, Num(5))
  /\ ast.left.type = "BinaryOp"

RECURSIVE LeadingSigns(_)
\* The signs a token list starts with.
LeadingSigns(toks) ==
  IF Len(toks) > 0 /\ Head(toks).type \in {"PLUS", "MINUS"}
  THEN <<Head(toks).value>> \o LeadingSigns(Tail(toks))
  ELSE <<>>

RECURSIVE Leftmost(_)
\* The first factor of a tree: down the left operands of its binary nodes.
Leftmost(node) == IF node.type = "BinaryOp" THEN Leftmost(node.left) ELSE node

RECURSIVE NestedSigns(_, _, _)
\* node is one UnaryOp per sign, outermost first, around the factor that
\* starts with the token `next`.
NestedSigns(node, signs, next) ==
  IF Len(signs) = 0
  THEN /\ next.type = "INTEGER" => node = createIntegerNode(next.value)
       /\ next.type = "IDENTIFIER" =>
            (node.type = "FunctionCall" /\ node.name = next.value)
  ELSE /\ node.type = "UnaryOp"
       /\ node.operator = Head(signs)
       /\ NestedSigns(node.operand, Tail(signs), next)

\* The signs of a text before the first factor of a tree have one UnaryOp
\* node each around it, in the Parser of the input text: a sign put before
\* a text whose first factor parses to f yields UnaryOp(sign, f) and leaves
\* the parser at the same token, and the first factor of a parsed text that
\* starts with k signs is those k UnaryOp nodes around the factor that
\* follows them.
UnarySignsOfParser ==
  /\ pc = "parser" =>
       \A sign \in {"+", "-"} :
         LET signed == <<sign>> \o text
             inner == Factor(LexerOn(text), parser)
             outer == Factor(LexerOn(signed), NewParser(signed))
         IN  IF Failed(inner.p.error) THEN Failed(outer.p.error)
             ELSE /\ ~Failed(outer.p.error)
                  /\ outer.node = createUnaryOpNode(sign, inner.node)
                  /\ outer.p.pos = inner.p.pos + 1
                  /\ outer.p.currentToken.type = inner.p.currentToken.type
  /\ Parsed =>
       LET toks == TokensOf(text)
           signs == LeadingSigns(toks)
       IN  NestedSigns(Leftmost(ast), signs, toks[Len(signs) + 1])

RECURSIVE NumberTokensFrom(_, _)
\* The tokens the Lexer of NUMBER tokens returns from cursor pos on, before
\* EOF (of a text it lexes).
NumberTokensFrom(t, pos) ==
  LET Returned(r) ==
        IF Failed(r.error) \/ r.token.type = "EOF" THEN <<>>
        ELSE <<r.token>> \o NumberTokensFrom(t, r.pos)
  IN  Returned(NumberLexerGetNextToken(t, pos))

RECURSIVE NestedSignsOfNumber(_, _, _)
\* node is one UnaryOp per sign, outermost first, around the factor that
\* starts with the token `next`, a tree of the Parser constructed from a
\* Lexer.
NestedSignsOfNumber(node, signs, next) ==
  IF Len(signs) = 0
  THEN next.type = "NUMBER" => node = [type |-> "Number", value |-> next.value]
  ELSE /\ node.type = "UnaryOp"
       /\ node.operator = Head(signs)
       /\ NestedSignsOfNumber(node.operand, Tail(signs), next)

\* parse() of the Parser constructed from a Lexer has just returned a tree.
LexerParsed == pc = "lexerParsed"

\* C7: a run of k >= 1 unary signs before a factor parses to k nested
\* UnaryOp nodes, one per sign, outermost first in source order, around the
\* immediately following factor only ("--5" is -(-5), "-+5" is -(+5)), in
\* the Parser of the input text and in the Parser constructed from a Lexer.
\* The second one builds no node for a unary plus: its tree of "-+5" is
\* UnaryOp("-", Number 5) and its tree of "+5" is Number 5.
C7_UnarySigns ==
  /\ UnarySignsOfParser
  /\ LexerParsed =>
       LET toks == NumberTokensFrom(text, 0)
           signs == LeadingSigns(toks)
       IN  NestedSignsOfNumber(Leftmost(ast), signs, toks[Len(signs) + 1])

\* C8: a parenthesised expression is one factor and adds no node: for a text
\* e that parses, "(e)" and "((e))" parse to the tree of e, and as an operand
\* "(e)" becomes the operand's whole subtree whatever the operator around it.
C8_Parentheses ==
  pc = "parsed" =>
    LET wrapped == <<"(">> \o text \o <<")">>
        four == createIntegerNode(Num(4))
        Tree(t) == ParseExpression(t)
    IN  /\ Tree(wrapped).pc = "parsed" /\ Tree(wrapped).ast = ast
        /\ Tree(<<"(">> \o wrapped \o <<")">>).pc = "parsed"
        /\ Tree(<<"(">> \o wrapped \o <<")">>).ast = ast
        /\ Tree(wrapped \o <<"*", "4">>).ast = createBinaryOpNode("*", ast, four)
        /\ Tree(<<"4", "*">> \o wrapped).ast = createBinaryOpNode("*", four, ast)
        /\ Tree(<<"4", "-">> \o wrapped).ast = createBinaryOpNode("-", four, ast)
        /\ Tree(<<"-">> \o wrapped).ast = createUnaryOpNode("-", ast)

\* C8 witness: "(2 + 3) * 4" has parsed to *(+(2, 3), 4).
C8_Witness ==
  /\ pc = "parsed"
  /\ text = <<"(", "2", " ", "+", " ", "3", ")", " ", "*", " ", "4">>
  /\ ast = createBinaryOpNode("*",
             createBinaryOpNode("+", createIntegerNode(Num(2)), createIntegerNode(Num(3))),
             createIntegerNode(Num(4)))

\* parse() has just returned or thrown.
AfterParse == pc \in {"parsed", "parseFailed"}

\* C9: parse returns a tree only if EOF follows the root expression; when
\* another token follows it ("1 2", "1 )", "1 , 2", "f() 3") parse fails with
\* a parse error at that token and returns no tree.
C9_TrailingTokens ==
  AfterParse =>
    LET root == Expr(LexerOn(text), NewParser(text))
        follows == root.p.currentToken
    IN  /\ Parsed =>
             /\ parser.currentToken.type = "EOF"
             /\ ~Failed(root.p.error) /\ follows.type = "EOF"
             /\ ast = root.node
        /\ (~Failed(root.p.error) /\ follows.type # "EOF") =>
             /\ pc = "parseFailed"
             /\ ast = NoNode
             /\ error = UnexpectedToken(follows.position, follows.type)
        /\ text \in {<<"1", " ", "2">>, <<"1", " ", ")">>, <<"1", " ", ",", " ", "2">>, <<"f", "(", ")", " ", "3">>} =>
             (pc = "parseFailed" /\ ~Failed(root.p.error))

\* C9 witness: "f() 3" has failed at the 3 that follows the call.
C9_Witness ==
  /\ pc = "parseFailed"
  /\ text = <<"f", "(", ")", " ", "3">>
  /\ error = UnexpectedToken(4, "INTEGER")
  /\ ast = NoNode

RECURSIVE CallNames(_)
RECURSIVE CallNamesOfAll(_)
\* The names of the FunctionCall nodes of a tree, in source order.
CallNames(node) ==
  CASE node.type = "Integer" -> <<>>
    [] node.type = "UnaryOp" -> CallNames(node.operand)
    [] node.type = "BinaryOp" -> CallNames(node.left) \o CallNames(node.right)
    [] node.type = "FunctionCall" ->
         <<node.name>> \o CallNamesOfAll(node.arguments)

CallNamesOfAll(nodes) ==
  IF Len(nodes) = 0 THEN <<>>
  ELSE CallNames(Head(nodes)) \o CallNamesOfAll(Tail(nodes))

IdentifiersOf(toks) ==
  LET ids == SelectSeq(toks, LAMBDA tok : tok.type = "IDENTIFIER")
  IN  [i \in 1..Len(ids) |-> ids[i].value]

\* The tokens the lexer yields for a text, EOF included, up to its first
\* invalid character.
Lexed(t) == Tokenize(t, 0).tokens

Lexable(t) == ~Failed(Tokenize(t, 0).error)

\* toks[i] is an identifier and the token after it is no LPAREN.
BareIdentifierAt(toks, i) ==
  /\ i < Len(toks)
  /\ toks[i].type = "IDENTIFIER"
  /\ toks[i + 1].type # "LPAREN"

\* The parser state in which toks[i], an identifier, is the current token.
ParserAt(toks, i) ==
  [pos |-> toks[i].position + Len(toks[i].value), currentToken |-> toks[i],
   error |-> NoError]

\* C10 as stated: an identifier whose next token is no LPAREN makes the
\* parse fail with the "variables are not supported" error wherever in the
\* expression it occurs.
C10_BareIdentifierAlwaysVariablesError ==
  (AfterParse /\ Lexable(text)) =>
    \A i \in 1..Len(Lexed(text)) :
      BareIdentifierAt(Lexed(text), i) =>
        (pc = "parseFailed" /\ error.kind = "variables are not supported")

\* C10 amended: factor() parses an identifier followed by LPAREN as a
\* FunctionCall with that name, and fails with the "variables are not
\* supported" error, naming the identifier and its offset, at an identifier
\* followed by any other token; a text with such an identifier never parses,
\* and an identifier met where no operand is expected ("1 f") fails the
\* parse with the unexpected-token error instead.
C10_Identifiers ==
  LET toks == Lexed(text)
  IN  /\ Parsed =>
           /\ \A i \in 1..Len(toks) : ~BareIdentifierAt(toks, i)
           /\ CallNames(ast) = IdentifiersOf(toks)
      /\ (pc = "parser" /\ Lexable(text)) =>
           \A i \in 1..Len(toks) :
             toks[i].type = "IDENTIFIER" =>
               LET f == Factor(LexerOn(text), ParserAt(toks, i))
               IN  IF BareIdentifierAt(toks, i)
                   THEN /\ f.node = NoNode
                        /\ f.p.error =
                             UnexpectedIdentifier(toks[i].position, toks[i].value)
                   ELSE \/ /\ ~Failed(f.p.error)
                           /\ f.node.type = "FunctionCall"
                           /\ f.node.name = toks[i].value
                        \/ /\ Failed(f.p.error)
                           /\ f.p.error #
                                UnexpectedIdentifier(toks[i].position,
                                                     toks[i].value)
      /\ (pc = "parseFailed" /\ error.kind = "variables are not supported") =>
           \E i \in 1..Len(toks) :
             /\ BareIdentifierAt(toks, i)
             /\ error = UnexpectedIdentifier(toks[i].position, toks[i].value)
      /\ (AfterParse /\ Len(toks) > 0 /\ BareIdentifierAt(toks, 1)) =>
           /\ pc = "parseFailed"
           /\ error = UnexpectedIdentifier(toks[1].position, toks[1].value)
      /\ (AfterParse /\ text = <<"1", " ", "+", " ", "m", "a", "x">>) =>
           error = UnexpectedIdentifier(4, <<"m", "a", "x">>)
      /\ (AfterParse /\ text = <<"1", " ", "f">>) =>
           (pc = "parseFailed" /\ error = UnexpectedToken(2, "IDENTIFIER"))

\* C10 witness: "1 + max" has failed with the "variables are not supported"
\* error at the identifier.
C10_Witness ==
  /\ pc = "parseFailed"
  /\ text = <<"1", " ", "+", " ", "m", "a", "x">>
  /\ error = UnexpectedIdentifier(4, <<"m", "a", "x">>)

\* The token kinds a factor starts with.
FactorStart == {"PLUS", "MINUS", "INTEGER", "IDENTIFIER", "LPAREN"}

\* toks[i] stands where an operand is expected: at the start of the text,
\* after an operator or a sign, after a comma, or after a left parenthesis
\* (but for the RPAREN that closes an empty argument list).
OperandExpectedAt(toks, i) ==
  \/ i = 1
  \/ i > 1 /\ toks[i - 1].type \in {"PLUS", "MINUS", "MUL", "DIV", "COMMA"}
  \/ /\ i > 1
     /\ toks[i - 1].type = "LPAREN"
     /\ ~(toks[i].type = "RPAREN" /\ i > 2 /\ toks[i - 2].type = "IDENTIFIER")

\* The parser state in which the token that starts at offset pos is the
\* current token.
ParserOn(t, pos) ==
  LET On(r) == [pos |-> r.pos, currentToken |-> r.token, error |-> r.error]
  IN  On(GetNextToken(t, pos))

ParseErrorKinds ==
  {"Unexpected token at position", "Expected token but got",
   "variables are not supported"}

\* C11: a text that has EOF, or another token that cannot start a factor,
\* where an operand is expected (the empty text, whitespace only, after an
\* operator, a sign, '(' or ',') fails with a parse error: factor() throws
\* the unexpected-token error at that token without reading further, parse
\* returns no tree and evaluate returns no number.
C11_MissingOperand ==
  LET toks == Lexed(text)
      missing == {i \in 1..Len(toks) :
                    OperandExpectedAt(toks, i) /\ toks[i].type \notin FactorStart}
  IN  /\ (pc = "parser" /\ Lexable(text)) =>
           \A i \in 1..Len(toks) :
             toks[i].type \notin FactorStart =>
               LET p == ParserOn(text, toks[i].position)
               IN  Factor(LexerOn(text), p) =
                     Throw(p, UnexpectedToken(toks[i].position, toks[i].type))
      /\ (pc \in {"parsed", "done", "evalFailed"}) => missing = {}
      /\ (AfterParse /\ Lexable(text) /\ missing # {}) =>
           /\ pc = "parseFailed"
           /\ ast = NoNode
           /\ result = NoValue
           /\ error.kind \in ParseErrorKinds
      /\ (AfterParse /\ Lexable(text) /\ Len(toks) = 1) =>
           (pc = "parseFailed" /\ error = UnexpectedToken(Len(text), "EOF"))
      /\ (AfterParse /\ text = <<"2", " ", "+">>) =>
           error = UnexpectedToken(3, "EOF")
      /\ (AfterParse /\ text = <<"(">>) => error = UnexpectedToken(1, "EOF")
      /\ (AfterParse /\ text = <<"f", "(", ",", ")">>) =>
           error = UnexpectedToken(2, "COMMA")

\* C11 witness: "2 +" has failed at the EOF that follows the operator.
C11_Witness ==
  /\ pc = "parseFailed"
  /\ text = <<"2", " ", "+">>
  /\ error = UnexpectedToken(3, "EOF")
  /\ result = NoValue

IsCall(node) == node.type = "FunctionCall"

\* C12: when the invocation of a registry function fails, the call fails with
\* the function-invocation error that carries the name of the function and
\* the cause; the failure the function raised never reaches the caller as it
\* was raised.
C12_InvocationErrorWrapped ==
  Evaluated =>
    /\ \A s \in Subtrees(ast) :
         IsCall(s) =>
           LET func == Lookup(functions, s.name)
               args == EvaluateArguments(s.arguments, functions, <<>>)
               whole == Evaluate(s, functions)
           IN  (func # Undefined /\ args.ok /\ Invoke(func, args.value).threw) =>
                 /\ ~whole.ok
                 /\ whole.error =
                      ErrorCallingFunction(s.name, Invoke(func, args.value).cause)
    /\ (pc = "evalFailed" /\ calls # <<>>) =>
         LET last == calls[Len(calls)]
             r == Invoke(Lookup(functions, last.name), last.args)
         IN  r.threw => error = ErrorCallingFunction(last.name, r.cause)
    /\ pc = "evalFailed" =>
         error.kind \in {"Division by zero", "Unknown function",
                         "Error calling function"}
    /\ (text = <<"s", "(", "1", ",", " ", "g", "(", ")", ")">>
        /\ functions = TestRegistry) =>
         (pc = "evalFailed" /\ error = ErrorCallingFunction(<<"g">>, "Test error"))

\* C12 witness: g of the test registry threw "Test error" and the call of
\* "g()" has failed with the invocation error that names g and the cause.
C12_Witness ==
  /\ pc = "evalFailed"
  /\ text = <<"g", "(", ")">>
  /\ functions = TestRegistry
  /\ calls = <<[name |-> <<"g">>, args |-> <<>>]>>
  /\ error = ErrorCallingFunction(<<"g">>, "Test error")

\* The five failure kinds, and the kind of an error by its message: the
\* messages of both Lexer classes and of both Parser classes, and those of
\* the Evaluator.  Its errors about a node type or an operator it has no
\* case for are of none of the five kinds.
FailureKinds == {"lex", "parse", "division by zero", "unknown function",
                 "function invocation"}

FailureKind(e) ==
  CASE e.kind \in {"Invalid character at position", "Invalid character"} ->
         "lex"
    [] e.kind \in ParseErrorKinds -> "parse"
    [] e.kind \in {"Expected token, got", "Unexpected token",
                   "Expected end of expression"} -> "parse"
    [] e.kind = "Division by zero" -> "division by zero"
    [] e.kind = "Unknown function" -> "unknown function"
    [] e.kind = "Error calling function" -> "function invocation"
    [] e.kind \in {"Unknown node type", "Unknown operator"} -> "internal"

\* The type of the error object the source throws for a failure kind.
ErrorTypeOf(kind) ==
  CASE kind = "lex" -> InvalidCharacter(0, "@").class
    [] kind = "parse" -> UnexpectedToken(0, "EOF").class
    [] kind = "division by zero" -> DivisionByZero.class
    [] kind = "unknown function" -> UnknownFunction(<<"f">>).class
    [] kind = "function invocation" -> ErrorCallingFunction(<<"f">>, "").class

\* C13: the five failure kinds reach the caller as distinct error kinds: the
\* type of the error a failed call threw is the type of no other failure
\* kind.
C13_DistinctErrorTypes ==
  Failed(error) =>
    \A kind \in FailureKinds \ {FailureKind(error)} :
      error.class # ErrorTypeOf(kind)

RECURSIVE CallsUpToFailure(_, _)
\* The calls the evaluations of nodes[1], nodes[2], ... make, up to and
\* including the first one that fails.
CallsUpToFailure(nodes, registry) ==
  IF Len(nodes) = 0 THEN <<>>
  ELSE LET first == Evaluate(Head(nodes), registry)
       IN  IF first.ok
           THEN first.calls \o CallsUpToFailure(Tail(nodes), registry)
           ELSE first.calls

\* The operands of a node, in the order the evaluator visits them.
Operands(node) ==
  CASE node.type = "Integer" -> <<>>
    [] node.type = "BinaryOp" -> <<node.left, node.right>>
    [] node.type = "UnaryOp" -> <<node.operand>>
    [] node.type = "FunctionCall" -> node.arguments

\* The first operand of a node whose evaluation fails, 0 when none does.
FirstFailing(node, registry) ==
  LET failing == {i \in 1..Len(Operands(node)) :
                    ~Evaluate(Operands(node)[i], registry).ok}
  IN  IF failing = {} THEN 0
      ELSE CHOOSE i \in failing : \A j \in failing : i <= j

\* The first failure has aborted the evaluation of node: the evaluation fails
\* with the error of the first failing operand, having made the calls up to
\* that failure and no other; a call of an unknown function fails before
\* any argument is evaluated.
AbortsAtFirstFailure(node, registry) ==
  LET whole == Evaluate(node, registry)
      k == FirstFailing(node, registry)
  IN  IF IsCall(node) /\ Lookup(registry, node.name) = Undefined
      THEN whole = Raise(UnknownFunction(node.name), <<>>)
      ELSE k > 0 =>
             whole = Raise(Evaluate(Operands(node)[k], registry).error,
                           CallsUpToFailure(Operands(node), registry))

\* A failed parser has read no token after the failure: the cursor of its
\* lexer rests on the invalid character, or right after the current token,
\* which is the token the parse error is about (the one after it, for a
\* bare identifier).
StoppedReading(t, p) ==
  IF p.error.kind = "Invalid character at position"
  THEN p.pos = p.error.position
  ELSE /\ p.pos = GetNextToken(t, p.currentToken.position).pos
       /\ IF p.error.kind = "variables are not supported"
          THEN p.currentToken =
                 GetNextToken(t, GetNextToken(t, p.error.position).pos).token
          ELSE p.currentToken.position = p.error.position

\* C14: the first failure aborts the evaluate call: after it no token is
\* read, no node is evaluated, no registry function is invoked and no number
\* is returned ("f() + 1/0 + g()" invokes f once and g never).
C14_FirstFailureAborts ==
  /\ pc \in {"newFailed", "parseFailed"} =>
       /\ StoppedReading(text, parser)
       /\ error = parser.error
       /\ ast = NoNode /\ result = NoValue /\ calls = <<>>
  /\ Evaluated =>
       /\ \A s \in Subtrees(ast) : AbortsAtFirstFailure(s, functions)
       /\ pc = "evalFailed" =>
            /\ result = NoValue
            /\ error = Evaluate(ast, functions).error
            /\ calls = Evaluate(ast, functions).calls
  /\ (Evaluated /\ functions = TestRegistry
      /\ text = <<"f", "(", ")", " ", "+", " ", "1", "/", "0", " ", "+", " ",
                  "g", "(", ")">>) =>
       /\ pc = "evalFailed"
       /\ error = DivisionByZero
       /\ calls = <<[name |-> <<"f">>, args |-> <<>>]>>

\* C14 witness: "f() + 1/0 + g()" has failed with the division by zero after
\* the one call of f.
C14_Witness ==
  /\ pc = "evalFailed"
  /\ functions = TestRegistry
  /\ text = <<"f", "(", ")", " ", "+", " ", "1", "/", "0", " ", "+", " ",
              "g", "(", ")">>
  /\ error = DivisionByZero
  /\ calls = <<[name |-> <<"f">>, args |-> <<>>]>>
  /\ result = NoValue

\* The characters of the text t that make up its token tok.
Lexeme(t, tok) ==
  SubSeq(t, tok.position + 1, GetNextToken(t, tok.position).pos)

\* The kind and the payload of every token of a text, EOF included.
Payloads(t) ==
  LET toks == Lexed(t)
  IN  [i \in 1..Len(toks) |-> [type |-> toks[i].type, value |-> toks[i].value]]

\* Without whitespace between them the characters of tokens a and b would be
\* read as one token ("1 2" as 12, "f 1" as f1).
Merges(a, b) ==
  \/ a.type = "INTEGER" /\ b.type = "INTEGER"
  \/ a.type = "IDENTIFIER" /\ b.type \in {"INTEGER", "IDENTIFIER"}

RECURSIVE Respaced(_, _, _, _)
\* The tokens toks of the text t from the i-th on, each preceded by gap[i].
Respaced(t, toks, i, gap) ==
  IF i > Len(toks) THEN <<>>
  ELSE gap[i] \o Lexeme(t, toks[i]) \o Respaced(t, toks, i + 1, gap)

\* The text t with all its whitespace removed.
Unspaced(t) ==
  LET toks == TokensOf(t)
  IN  Respaced(t, toks, 1, [i \in 1..Len(toks) |-> <<>>])

\* The text t with its whitespace removed but for one space between two
\* tokens that would merge.
Tight(t) ==
  LET toks == TokensOf(t)
  IN  Respaced(t, toks, 1,
               [i \in 1..Len(toks) |->
                  IF i > 1 /\ Merges(toks[i - 1], toks[i])
                  THEN <<" ">> ELSE <<>>])

\* The text t with whitespace before its first token, between every two
\* adjacent tokens and after its last token.
Loose(t) ==
  LET toks == TokensOf(t)
  IN  Respaced(t, toks, 1, [i \in 1..Len(toks) |-> <<" ", "\t">>])
      \o <<"\n", " ">>

\* What a caller of evaluate sees, but for the offsets in an error.
SameOutcome(a, b) ==
  /\ a.pc = b.pc
  /\ a.ast = b.ast
  /\ a.pc = "done" => a.result = b.result
  /\ a.error.class = b.error.class
  /\ Failed(a.error) =>
       /\ a.error.kind = b.error.kind
       /\ a.error.kind = "Invalid character at position" =>
            a.error.char = b.error.char
  /\ a.calls = b.calls

EvaluateEnded == pc \in {"newFailed", "parseFailed", "done", "evalFailed"}

\* C15 as stated: removing the whitespace between any two adjacent tokens
\* leaves the kinds and the payloads of the tokens unchanged.
C15_WhitespaceRemovableAnywhere ==
  (EvaluateEnded /\ Lexable(text)) => Payloads(Unspaced(text)) = Payloads(text)

\* C15 amended: whitespace yields no token, and the kinds and payloads of
\* the tokens, the tree and the value or the kind of the error of evaluate
\* are those of the text with whitespace inserted before the first token,
\* after the last one and between every two tokens, and those of the text
\* with all whitespace removed but for a separator between two tokens that
\* would otherwise be read as one ("1 2", "f 1").
C15_Whitespace ==
  EvaluateEnded =>
    LET here == [pc |-> pc, ast |-> ast, result |-> result, error |-> error,
                 calls |-> calls]
        toks == Lexed(text)
        tight == Tight(text)
        loose == Loose(text)
        padded == EvaluateExpression(<<" ", "\t">> \o text \o <<"\n">>,
                                     functions)
    IN  /\ \A i \in 1..Len(toks) :
             toks[i].type \in
               {"INTEGER", "PLUS", "MINUS", "MUL", "DIV", "LPAREN", "RPAREN",
                "IDENTIFIER", "COMMA", "EOF"}
        /\ Lexable(text) =>
             /\ Payloads(tight) = Payloads(text)
             /\ Payloads(loose) = Payloads(text)
             /\ SameOutcome(EvaluateExpression(tight, functions), here)
             /\ SameOutcome(EvaluateExpression(loose, functions), here)
             /\ \A i \in 1..Len(tight) :
                  tight[i] \in Whitespace =>
                    (1 < i /\ i < Len(tight)
                     /\ tight[i - 1] \in IdentifierPart
                     /\ tight[i + 1] \in IdentifierPart)
        /\ ~Lexable(text) =>
             /\ SameOutcome(padded, here)
             /\ error.kind = "Invalid character at position" =>
                  padded.error.position = error.position + 2

\* C15 witness: "10 - 6 / 2", a text with whitespace between its tokens, has
\* evaluated to 7, and the text without that whitespace is another one.
C15_Witness ==
  /\ pc = "done"
  /\ text = <<"1", "0", " ", "-", " ", "6", " ", "/", " ", "2">>
  /\ Tight(text) = <<"1", "0", "-", "6", "/", "2">>
  /\ result = Num(7)
  /\ EvaluateExpression(Tight(text), functions).result = Num(7)

(***************************************************************************)
(* C16: two Parser instances on the same text.                             *)
(***************************************************************************)
\* What a parse ended with: the tree, or the error thrown.
ParseOutcome(stage, p, node) ==
  [ok |-> stage \in {"parsed", "done", "evalFailed"},
   ast |-> node, error |-> p.error]

ParseEnded == pc \in {"newFailed", "parseFailed", "parsed", "done", "evalFailed"}

PeerParseEnded == peer.pc \in {"newFailed", "parseFailed", "parsed"}

\* C16: whatever the order of the calls of the two callers (constructing,
\* parsing, evaluating, reading tokens from a further Lexer), each Parser
\* ends with what a parse of the text on its own ends with, so two Parsers
\* of the same text end with equal trees or with the same error.
C16_ParsingInstanceLocal ==
  LET alone == ParseExpression(text)
      expected == ParseOutcome(alone.pc, alone.parser, alone.ast)
  IN  /\ ParseEnded => ParseOutcome(pc, parser, ast) = expected
      /\ PeerParseEnded
           => ParseOutcome(peer.pc, peer.parser, peer.ast) = expected
      /\ ParseEnded /\ PeerParseEnded
           => /\ ast = peer.ast
              /\ parser.error = peer.parser.error

\* Both callers parsed "2 + 3 * 4" to the same tree, the first one evaluated
\* it, and the second one also read tokens from a Lexer of its own.
C16_Witness ==
  /\ text = <<"2", " ", "+", " ", "3", " ", "*", " ", "4">>
  /\ pc = "done"
  /\ peer.pc = "parsed"
  /\ peer.lexer > 0
  /\ ast = peer.ast
  /\ ast.type = "BinaryOp"
  /\ ast.right.type = "BinaryOp"

(***************************************************************************)
(* C17: the registry after a call of evaluate.                             *)
(***************************************************************************)
\* The call of evaluate is over: it returned, or it threw from the parser or
\* from the evaluator.
EvaluateCallEnded ==
  \/ pc \in {"done", "evalFailed"}
  \/ pc \in {"newFailed", "parseFailed"} /\ given # EmptyRegistry

\* C17: after a call of evaluate, whether it returned a value or threw, the
\* registry object holds the names it held when the caller passed it, each
\* mapped to the same function.
C17_RegistryUnchanged ==
  EvaluateCallEnded
    => /\ DOMAIN functions = DOMAIN given
       /\ \A name \in DOMAIN given : functions[name] = given[name]

\* "f() + g() + f()" on the test registry: f was called, g threw, and the
\* registry still holds its four functions.
C17_Witness ==
  /\ text = <<"f", "(", ")", " ", "+", " ", "g", "(", ")", " ", "+", " ", "f", "(", ")">>
  /\ pc = "evalFailed"
  /\ given = TestRegistry
  /\ Len(calls) > 0
  /\ functions = TestRegistry
  /\ Cardinality(DOMAIN functions) = 4

(***************************************************************************)
(* C18: getNextToken at the end of the text.                               *)
(***************************************************************************)
EofToken(t) == Token("EOF", "", Len(t))

\* The places of the EOF tokens among the tokens getNextToken returned.
EofReturns == {i \in 1..Len(tokens) : tokens[i].type = "EOF"}

\* C18: once getNextToken returned an EOF token, every later call on that
\* Lexer (tokenize's calls included) returns an EOF token positioned at the
\* length of the text, without an error, and the cursor rests at the length
\* of the text before and after each such call.
C18_EofAbsorbing ==
  EofReturns # {}
    => /\ \A i \in EofReturns :
            \A j \in i..Len(tokens) : tokens[j] = EofToken(text)
       /\ lexer = Len(text)
       /\ ~Failed(error)
       /\ pc = "tokenized" => tokenized = <<EofToken(text)>>

\* "2 + 3 * 4" read to its end, and getNextToken called once more: two EOF
\* tokens at offset 9, cursor at 9.
C18_Witness ==
  /\ text = <<"2", " ", "+", " ", "3", " ", "*", " ", "4">>
  /\ pc = "lexer"
  /\ Len(tokens) = 7
  /\ tokens[6] = EofToken(text)
  /\ tokens[7] = EofToken(text)
  /\ tokens[6].position = 9
  /\ lexer = 9

(***************************************************************************)
(* C19: getNextToken on a character that starts no token.                  *)
(***************************************************************************)
\* The characters a token can start with.
TokenStart ==
  Digits \cup Letters \cup {"_"} \cup {"+", "-", "*", "/", "(", ")", ","}

\* The offset of the first character at or after pos that is no whitespace,
\* the length of the text when there is none.
NextVisible(t, pos) ==
  LET visible == {i \in pos..(Len(t) - 1) : t[i + 1] \notin Whitespace}
  IN  IF visible = {} THEN Len(t)
      ELSE CHOOSE i \in visible : \A j \in visible : i <= j

\* A step that is one call of getNextToken on the caller's Lexer.
GetNextTokenCalled == pc = "lexer" /\ pc' = "lexer"

\* C19: a call of getNextToken whose next non-whitespace character c, at
\* offset p, is neither a digit, a letter, an underscore nor one of
\* + - * / ( ) , throws the lexer's error with exactly c and p in it, and
\* no token is returned.
C19_InvalidCharacter ==
  [][LET p == NextVisible(text, lexer)
     IN  GetNextTokenCalled /\ p < Len(text) /\ text[p + 1] \notin TokenStart
           => /\ Failed(error')
              /\ error'.kind = "Invalid character at position"
              /\ error'.position = p
              /\ error'.char = text[p + 1]
              /\ tokens' = tokens]_vars

\* "2 @ 3": the second call of getNextToken skipped the space and threw on
\* "@" at offset 2; only the token of the first call was returned.
C19_Witness ==
  /\ text = <<"2", " ", "@", " ", "3">>
  /\ pc = "lexer"
  /\ tokens = <<Token("INTEGER", Num(2), 0)>>
  /\ Failed(error)
  /\ error.position = 2
  /\ error.char = "@"

(***************************************************************************)
(* C20: the argument list of a FunctionCall.                               *)
(***************************************************************************)
Payload(type, value) == [type |-> type, value |-> value]

RECURSIVE CallShape(_)
RECURSIVE ArgumentsShape(_)
\* A tree written out left to right: literals, operators and names, and for
\* each FunctionCall its parentheses with one comma between two arguments.
CallShape(node) ==
  CASE node.type = "Integer" -> <<Payload("INTEGER", node.value)>>
    [] node.type = "UnaryOp" ->
         <<Payload(OperatorType(node.operator), node.operator)>>
           \o CallShape(node.operand)
    [] node.type = "BinaryOp" ->
         CallShape(node.left)
           \o <<Payload(OperatorType(node.operator), node.operator)>>
           \o CallShape(node.right)
    [] node.type = "FunctionCall" ->
         <<Payload("IDENTIFIER", node.name), Payload("LPAREN", "(")>>
           \o ArgumentsShape(node.arguments)
           \o <<Payload("RPAREN", ")")>>

ArgumentsShape(args) ==
  IF Len(args) = 0 THEN <<>>
  ELSE IF Len(args) = 1 THEN CallShape(args[1])
  ELSE CallShape(args[1]) \o <<Payload("COMMA", ",")>>
         \o ArgumentsShape(Tail(args))

RECURSIVE WithoutGrouping(_, _, _)
\* The tokens from the i-th on without the parentheses that group an
\* expression; a parenthesis belongs to a call when its opening one follows
\* an identifier.  open lists the parentheses open so far, innermost first
\* (TRUE for those of a call).
WithoutGrouping(toks, i, open) ==
  IF i > Len(toks) THEN <<>>
  ELSE IF toks[i].type = "LPAREN"
  THEN LET call == i > 1 /\ toks[i - 1].type = "IDENTIFIER"
       IN  (IF call THEN <<toks[i]>> ELSE <<>>)
             \o WithoutGrouping(toks, i + 1, <<call>> \o open)
  ELSE IF toks[i].type = "RPAREN"
  THEN (IF open = <<>> \/ Head(open) THEN <<toks[i]>> ELSE <<>>)
         \o WithoutGrouping(toks, i + 1,
                            IF open = <<>> THEN open ELSE Tail(open))
  ELSE <<toks[i]>> \o WithoutGrouping(toks, i + 1, open)

\* A comma that no expression precedes or follows: after "(", before ")",
\* or after another comma.
MisplacedComma(toks) ==
  \E i \in 1..(Len(toks) - 1) :
    \/ toks[i].type = "LPAREN" /\ toks[i + 1].type = "COMMA"
    \/ toks[i].type = "COMMA" /\ toks[i + 1].type \in {"COMMA", "RPAREN"}

\* C20: the tree parse() returns, written out with the parentheses and
\* commas of its calls, is the token sequence of the text without its
\* grouping parentheses: every FunctionCall has one argument per
\* comma-separated expression between its parentheses, in source order, and
\* none for "()".  A text with a comma right after "(", right before ")" or
\* right after another comma does not parse: parse() throws.
C20_ArgumentList ==
  /\ Parsed =>
       LET toks == TokensOf(text)
           kept == WithoutGrouping(toks, 1, <<>>)
       IN  /\ CallShape(ast)
               = [i \in 1..Len(kept) |-> Payload(kept[i].type, kept[i].value)]
           /\ ~MisplacedComma(toks)
  /\ AfterParse /\ Lexable(text) /\ MisplacedComma(TokensOf(text))
       => /\ pc = "parseFailed"
          /\ error.kind \in ParseErrorKinds

\* "s(s(1,2),3)" parsed: the outer call has two arguments, the inner call
\* with its two first and the literal 3 second.
C20_Witness ==
  /\ text = <<"s", "(", "s", "(", "1", ",", "2", ")", ",", "3", ")">>
  /\ pc = "parsed"
  /\ IsCall(ast)
  /\ Len(ast.arguments) = 2
  /\ IsCall(ast.arguments[1])
  /\ ast.arguments[1].arguments = <<createIntegerNode(Num(1)), createIntegerNode(Num(2))>>
  /\ ast.arguments[2] = createIntegerNode(Num(3))

(***************************************************************************)
(* C21: tokenize.                                                          *)
(***************************************************************************)
\* The offset at which the run of characters of a class that starts at
\* offset pos ends.
RunEnd(t, pos, class) ==
  CHOOSE j \in pos..Len(t) :
    /\ \A k \in pos..(j - 1) : t[k + 1] \in class
    /\ j = Len(t) \/ t[j + 1] \notin class

\* The offset right after the characters of a token.
TokenEnd(t, tok) ==
  CASE tok.type = "INTEGER" -> RunEnd(t, tok.position, Digits)
    [] tok.type = "IDENTIFIER" -> RunEnd(t, tok.position, IdentifierPart)
    [] tok.type = "EOF" -> tok.position
    [] OTHER -> tok.position + 1

RECURSIVE ReadBase10(_)
\* The natural a run of digits denotes in base 10, exactly: ten times the
\* natural of the digits before the last, and the last digit.
ReadBase10(digits) ==
  IF Len(digits) = 0 THEN <<>>
  ELSE AddBig(MultiplyBig(ReadBase10(SubSeq(digits, 1, Len(digits) - 1)),
                          Limbs(10)),
              Limbs(DigitValue(digits[Len(digits)])))

\* The number v is the natural x.
IsNatural(v, x) ==
  /\ IsSmall(v) \/ IsLarge(v)
  /\ ~Parts(v).negative
  /\ Parts(v).e >= 0
  /\ ShiftLeftBits(Parts(v).m, Parts(v).e) = x

PunctuationChars == {"+", "-", "*", "/", "(", ")", ","}

\* The token is the one the text shows at the token's offset.
TokenOfText(t, tok) ==
  LET p == tok.position
      chars == SubSeq(t, p + 1, TokenEnd(t, tok))
  IN  CASE tok.type = "EOF" -> p = Len(t) /\ tok.value = ""
        [] tok.type = "INTEGER" ->
             /\ p < Len(t) /\ t[p + 1] \in Digits
             /\ tok.value = DigitsValue(chars)
        [] tok.type = "IDENTIFIER" ->
             /\ p < Len(t) /\ t[p + 1] \in IdentifierStart
             /\ tok.value = chars
        [] OTHER ->
             /\ p < Len(t) /\ t[p + 1] \in PunctuationChars
             /\ tok.value = t[p + 1]
             /\ tok.type = PunctuationType(t[p + 1])

\* toks are the tokens of the text from offset pos to its end, none left
\* out, in source order: each starts at the first non-whitespace character
\* after the one before, and the last is the EOF token.
TokensFrom(t, pos, toks) ==
  /\ Len(toks) > 0
  /\ toks[1].position = NextVisible(t, pos)
  /\ \A i \in 1..Len(toks) : TokenOfText(t, toks[i])
  /\ \A i \in 1..(Len(toks) - 1) :
       /\ toks[i].type # "EOF"
       /\ toks[i + 1].position = NextVisible(t, TokenEnd(t, toks[i]))
  /\ toks[Len(toks)].type = "EOF"

\* The tokens getNextToken returned before the end of the text.
Consumed == SelectSeq(tokens, LAMBDA tok : tok.type # "EOF")

\* C21: tokenize returns the tokens of the text not yet consumed by
\* getNextToken calls, in source order, with one EOF token, as the last
\* element: on a fresh Lexer all tokens of the text, and together with the
\* tokens consumed before all tokens of the text.  It returns nothing only
\* when a character that starts no token is ahead.
C21_Tokenize ==
  pc = "tokenized" =>
    /\ ~Failed(error) =>
         /\ TokensFrom(text, 0, Consumed \o tokenized)
         /\ TokensFrom(text,
                       IF Consumed = <<>> THEN 0
                       ELSE TokenEnd(text, Consumed[Len(Consumed)]),
                       tokenized)
         /\ Len(tokenized)
              = Len(SelectSeq(tokenized, LAMBDA tok : tok.type # "EOF")) + 1
         /\ tokens = <<>> => TokensFrom(text, 0, tokenized)
    /\ Failed(error) =>
         /\ tokenized = <<>>
         /\ \E i \in 1..Len(text) : text[i] \notin TokenStart \cup Whitespace
    /\ (\A i \in 1..Len(text) : text[i] \in TokenStart \cup Whitespace)
         => ~Failed(error)

\* "s(0,1)": tokenize after two getNextToken calls returned the five tokens
\* that were left, EOF last.
C21_Witness ==
  /\ text = <<"s", "(", "0", ",", "1", ")">>
  /\ pc = "tokenized"
  /\ Len(tokens) = 2
  /\ Len(tokenized) = 5
  /\ tokenized[1] = Token("INTEGER", Num(0), 2)
  /\ tokenized[5] = Token("EOF", "", 6)

(***************************************************************************)
(* C22: eat.                                                               *)
(***************************************************************************)
\* enum TokenType
TokenTypes ==
  {"INTEGER", "PLUS", "MINUS", "MUL", "DIV", "LPAREN", "RPAREN",
   "IDENTIFIER", "COMMA", "EOF"}

\* eat(kind) on the parser state p, whose current token is cur, took the
\* next token of the text: it is the current token now, and the cursor is
\* at its end.
EatAdvanced(t, cur, q) ==
  /\ ~Failed(q.error)
  /\ q.currentToken.position = NextVisible(t, TokenEnd(t, cur))
  /\ TokenOfText(t, q.currentToken)
  /\ q.pos = TokenEnd(t, q.currentToken)

\* eat(kind) threw the mismatch error and changed nothing.
EatMismatch(p, q, kind) ==
  /\ q.error = [class |-> "Error", kind |-> "Expected token but got",
                expected |-> kind, actual |-> p.currentToken.type,
                position |-> p.currentToken.position]
  /\ q.currentToken = p.currentToken
  /\ q.pos = p.pos

\* The character after the token cur and the whitespace that follows it
\* starts no token.
InvalidAhead(t, cur) ==
  LET ahead == NextVisible(t, TokenEnd(t, cur))
  IN  ahead < Len(t) /\ t[ahead + 1] \notin TokenStart

\* C22 as stated: on every token of the text and for every expected kind,
\* eat advances to the next token exactly when the current token is of the
\* expected kind; otherwise it throws the mismatch error and leaves the
\* current token and the cursor as they were.
C22_EatAdvancesExactlyOnMatch ==
  pc = "parser" =>
    LET toks == Lexed(text)
    IN  \A i \in 1..Len(toks), kind \in TokenTypes :
          LET p == ParserOn(text, toks[i].position)
              q == Eat(LexerOn(text), p, kind)
          IN  /\ (kind = toks[i].type) <=> EatAdvanced(text, toks[i], q)
              /\ (kind # toks[i].type) => EatMismatch(p, q, kind)

\* C22 amended: on a mismatch eat throws the error naming the expected
\* kind, the actual kind and the current token's offset, and leaves the
\* current token and the cursor unchanged.  On a match it calls
\* getNextToken: the next token of the text becomes the current one, with
\* the cursor at its end, unless a character that starts no token is ahead;
\* then eat fails with the lexer's error for that character, the current
\* token stays and the cursor rests on that character.  "(2 + 3" fails
\* naming RPAREN expected, EOF found, offset 6.
C22_Eat ==
  /\ pc = "parser" =>
       LET toks == Lexed(text)
       IN  \A i \in 1..Len(toks), kind \in TokenTypes :
             LET p == ParserOn(text, toks[i].position)
                 q == Eat(LexerOn(text), p, kind)
                 ahead == NextVisible(text, TokenEnd(text, toks[i]))
             IN  /\ (kind # toks[i].type) => EatMismatch(p, q, kind)
                 /\ (kind = toks[i].type /\ ~InvalidAhead(text, toks[i]))
                      => EatAdvanced(text, toks[i], q)
                 /\ (kind = toks[i].type /\ InvalidAhead(text, toks[i]))
                      => /\ Failed(q.error)
                         /\ q.error.kind = "Invalid character at position"
                         /\ q.error.position = ahead
                         /\ q.error.char = text[ahead + 1]
                         /\ q.currentToken = p.currentToken
                         /\ q.pos = ahead
  /\ (AfterParse /\ text = <<"(", "2", " ", "+", " ", "3">>)
       => /\ pc = "parseFailed"
          /\ error.kind = "Expected token but got"
          /\ error.expected = "RPAREN"
          /\ error.actual = "EOF"
          /\ error.position = 6

\* "(2 + 3" has failed in eat(RPAREN) on the EOF token at offset 6; the
\* parser still holds that token, its cursor at the end of the text.
C22_Witness ==
  /\ text = <<"(", "2", " ", "+", " ", "3">>
  /\ pc = "parseFailed"
  /\ error.kind = "Expected token but got"
  /\ error.expected = "RPAREN"
  /\ parser.currentToken = Token("EOF", "", 6)
  /\ parser.pos = 6

(***************************************************************************)
(* C23: the cursor of the lexer.                                           *)
(***************************************************************************)
\* The tokens toks cover disjoint ranges of the text, each one after the
\* range of the token before it, none empty but that of EOF, and none
\* beyond the offset cursor.
IncreasingRanges(t, toks, cursor) ==
  /\ \A i \in 1..Len(toks) :
       /\ toks[i].position <= TokenEnd(t, toks[i])
       /\ toks[i].type # "EOF" => toks[i].position < TokenEnd(t, toks[i])
       /\ TokenEnd(t, toks[i]) <= cursor
  /\ \A i \in 1..(Len(toks) - 1) :
       TokenEnd(t, toks[i]) <= toks[i + 1].position

\* C23: across the calls on a Lexer (getNextToken, and tokenize with its
\* getNextToken calls) the cursor never decreases and never exceeds the
\* length of the text, a getNextToken call that returns a token other than
\* EOF leaves it strictly greater, and the tokens returned cover disjoint,
\* increasing ranges of the text that end at or before the cursor.
C23_CursorMonotone ==
  [][/\ lexer <= lexer'
     /\ lexer' <= Len(text)
     /\ (tokens' # tokens /\ tokens'[Len(tokens')].type # "EOF")
          => lexer < lexer'
     /\ IncreasingRanges(text, tokens', lexer')
     /\ (pc' = "tokenized" /\ ~Failed(error'))
          => IncreasingRanges(text, Consumed \o tokenized', lexer')]_vars

\* "1 + max" read by three getNextToken calls: ranges 0..1, 2..3 and 4..7,
\* cursor at 7.
C23_Witness ==
  /\ text = <<"1", " ", "+", " ", "m", "a", "x">>
  /\ pc = "lexer"
  /\ Len(tokens) = 3
  /\ tokens[2].position = 2
  /\ tokens[3].position = 4
  /\ TokenEnd(text, tokens[3]) = 7
  /\ lexer = 7

(***************************************************************************)
(* C24: integer and identifier tokens.                                     *)
(***************************************************************************)
\* The token covers a whole run of characters of a class: no character of
\* the class follows it.
Maximal(t, tok, class) ==
  LET end == TokenEnd(t, tok)
  IN  /\ \A k \in tok.position..(end - 1) : t[k + 1] \in class
      /\ end < Len(t) => t[end + 1] \notin class

\* C24: every INTEGER token getNextToken or tokenize returned covers the
\* whole run of digits at its offset, its value being that run read in base
\* 10, and every IDENTIFIER token starts at a letter or an underscore and is
\* the whole run of letters, digits and underscores from there; the cursor
\* after such a token is at the end of the run.  "12abc" gives INTEGER 12
\* and then IDENTIFIER abc.
C24_MaximalTokens ==
  LET Whole(tok) ==
        /\ tok.type = "INTEGER" =>
             /\ Maximal(text, tok, Digits)
             /\ IsNatural(tok.value,
                          ReadBase10(SubSeq(text, tok.position + 1,
                                            TokenEnd(text, tok))))
        /\ tok.type = "IDENTIFIER" =>
             /\ text[tok.position + 1] \in IdentifierStart
             /\ Maximal(text, tok, IdentifierPart)
             /\ tok.value = SubSeq(text, tok.position + 1, TokenEnd(text, tok))
  IN  /\ \A i \in 1..Len(tokens) : Whole(tokens[i])
      /\ \A i \in 1..Len(tokenized) : Whole(tokenized[i])
      /\ (pc = "lexer" /\ ~Failed(error) /\ tokens # <<>>
          /\ tokens[Len(tokens)].type \in {"INTEGER", "IDENTIFIER"})
           => /\ lexer = TokenEnd(text, tokens[Len(tokens)])
              /\ lexer < Len(text) =>
                   text[lexer + 1] \notin
                     (IF tokens[Len(tokens)].type = "INTEGER"
                      THEN Digits ELSE IdentifierPart)
      /\ (text = <<"1", "2", "a", "b", "c">> /\ Len(tokens) >= 2)
           => /\ tokens[1] = Token("INTEGER", Num(12), 0)
              /\ tokens[2] = Token("IDENTIFIER", <<"a", "b", "c">>, 2)

\* "12abc" read by two getNextToken calls: INTEGER 12 at offset 0 and
\* IDENTIFIER abc at offset 2.
C24_Witness ==
  /\ text = <<"1", "2", "a", "b", "c">>
  /\ pc = "lexer"
  /\ tokens = <<Token("INTEGER", Num(12), 0),
                Token("IDENTIFIER", <<"a", "b", "c">>, 2)>>
  /\ lexer = 5

(***************************************************************************)
(* C25: the invocations of a successful evaluation.                        *)
(***************************************************************************)
RECURSIVE PostOrderCalls(_)
RECURSIVE PostOrderCallsOfAll(_)
\* The FunctionCall nodes of a tree, operands left to right and arguments
\* first to last, each call after its arguments.
PostOrderCalls(node) ==
  CASE node.type = "Integer" -> <<>>
    [] node.type = "UnaryOp" -> PostOrderCalls(node.operand)
    [] node.type = "BinaryOp" ->
         PostOrderCalls(node.left) \o PostOrderCalls(node.right)
    [] node.type = "FunctionCall" ->
         PostOrderCallsOfAll(node.arguments) \o <<node>>

PostOrderCallsOfAll(nodes) ==
  IF Len(nodes) = 0 THEN <<>>
  ELSE PostOrderCalls(Head(nodes)) \o PostOrderCallsOfAll(Tail(nodes))

\* C25: after an evaluation that returned, the functions invoked are those
\* of the FunctionCall nodes of the tree, one invocation per node, in
\* left-to-right post-order (left operand before right operand, arguments
\* first to last before the call itself), each with the values of its
\* arguments in source order.
C25_InvocationOrder ==
  pc = "done" =>
    LET nodes == PostOrderCalls(ast)
    IN  /\ Len(calls) = Len(nodes)
        /\ \A i \in 1..Len(nodes) :
             /\ calls[i].name = nodes[i].name
             /\ Len(calls[i].args) = Len(nodes[i].arguments)
             /\ \A k \in 1..Len(nodes[i].arguments) :
                  calls[i].args[k]
                    = Evaluate(nodes[i].arguments[k], functions).value

\* "s(z(), s(f(), 1)) + f()" on the test registry: z, f, the inner s with
\* 42 and 1, the outer s with 0 and 43, and f again.
C25_Witness ==
  /\ text = <<"s", "(", "z", "(", ")", ",", " ", "s", "(", "f", "(", ")", ",",
              " ", "1", ")", ")", " ", "+", " ", "f", "(", ")">>
  /\ pc = "done"
  /\ functions = TestRegistry
  /\ calls = <<[name |-> <<"z">>, args |-> <<>>],
               [name |-> <<"f">>, args |-> <<>>],
               [name |-> <<"s">>, args |-> <<Num(42), Num(1)>>],
               [name |-> <<"s">>, args |-> <<Num(0), Num(43)>>],
               [name |-> <<"f">>, args |-> <<>>]>>
  /\ result = Num(85)

(***************************************************************************)
(* C26: termination.                                                       *)
(***************************************************************************)
RECURSIVE NodeCount(_)
RECURSIVE NodeCountOfAll(_)
\* The number of nodes of a tree.
NodeCount(node) ==
  CASE node.type = "Integer" -> 1
    [] node.type = "UnaryOp" -> 1 + NodeCount(node.operand)
    [] node.type = "BinaryOp" ->
         1 + NodeCount(node.left) + NodeCount(node.right)
    [] node.type = "FunctionCall" -> 1 + NodeCountOfAll(node.arguments)

NodeCountOfAll(nodes) ==
  IF Len(nodes) = 0 THEN 0
  ELSE NodeCount(Head(nodes)) + NodeCountOfAll(Tail(nodes))

\* The caller of a Lexer has the tokens up to EOF, or an error.
LexingEnded ==
  \/ pc = "tokenized"
  \/ pc = "lexer" /\ (Failed(error) \/ EofReturns # {})

\* A parsing function that returned r, entered with the token cur as the
\* current one, has consumed a token: the current token is a later one of
\* the text, and the tree built has no more nodes than tokens were consumed.
Consumed1(t, cur, r) ==
  ~Failed(r.p.error) =>
    /\ r.p.currentToken.position > cur.position
    /\ r.p.pos <= Len(t)
    /\ NodeCount(r.node)
         <= Cardinality({k \in 1..Len(Lexed(t)) :
                           /\ Lexed(t)[k].position >= cur.position
                           /\ Lexed(t)[k].position < r.p.currentToken.position})

\* A loop of the parser that returned r, entered with the token cur as the
\* current one, has consumed a token.
Advanced1(cur, r) ==
  ~Failed(r.p.error) => r.p.currentToken.position > cur.position

\* From whatever token factor, term and expr are entered, they return
\* having consumed at least one token or throw, and so does every
\* iteration of the loops of term, expr and argumentList and every
\* re-entry into factor; the tree of a parsed text has no more nodes than
\* the text has tokens, and its evaluation invokes no more functions than
\* it has FunctionCall nodes.
ConsumesTokens ==
  /\ pc = "parser" =>
       LET toks == Lexed(text)
       IN  \A i \in 1..Len(toks) :
             LET p == ParserOn(text, toks[i].position)
             IN  /\ Consumed1(text, toks[i], Factor(LexerOn(text), p))
                 /\ Consumed1(text, toks[i], Term(LexerOn(text), p))
                 /\ Consumed1(text, toks[i], Expr(LexerOn(text), p))
                 /\ toks[i].type \in {"MUL", "DIV"} =>
                      Advanced1(toks[i],
                                TermLoop(LexerOn(text), p, createIntegerNode(Num(0))))
                 /\ toks[i].type \in {"PLUS", "MINUS"} =>
                      Advanced1(toks[i],
                                ExprLoop(LexerOn(text), p, createIntegerNode(Num(0))))
                 /\ toks[i].type = "COMMA" =>
                      Advanced1(toks[i], ArgumentLoop(LexerOn(text), p, <<>>))
  /\ pc \in {"parsed", "done", "evalFailed"} =>
       NodeCount(ast) <= Len(TokensOf(text))
  /\ pc \in {"newFailed", "parseFailed"} => Failed(error) /\ ast = NoNode
  /\ pc \in {"done", "evalFailed"} =>
       Len(calls) <= Len(PostOrderCalls(ast))

\* A call of getNextToken moves the cursor forward, returns EOF or throws.
GetNextTokenProgress ==
  GetNextTokenCalled =>
    \/ lexer < lexer'
    \/ Failed(error')
    \/ tokens' # tokens /\ tokens'[Len(tokens')].type = "EOF"

\* C26: on every text lexing ends: the getNextToken calls on a Lexer lead
\* to EOF or to an error, each one moving the cursor forward until then.
\* Parsing ends with a tree or an error, every loop iteration and every
\* recursive entry of the parser consuming a token of the finitely many;
\* and the evaluation of the tree ends, invoking at most one function per
\* FunctionCall node, the registry functions returning or failing.
C26_Terminates ==
  /\ (pc = "lexer") ~> LexingEnded
  /\ []ConsumesTokens
  /\ [][GetNextTokenProgress]_vars

\* "-(1 + 2) * s(0,1)" has evaluated: 8 nodes from 13 tokens.
C26_Witness ==
  /\ text = <<"-", "(", "1", " ", "+", " ", "2", ")", " ", "*", " ",
              "s", "(", "0", ",", "1", ")">>
  /\ pc = "done"
  /\ NodeCount(ast) = 8
  /\ Len(TokensOf(text)) = 13
  /\ Len(calls) = 1

(***************************************************************************)
(* C27: no invocation before the whole text is parsed.                     *)
(***************************************************************************)
\* The parentheses among the first n tokens: those opened minus those
\* closed.
ParenDepth(toks, n) ==
  Cardinality({i \in 1..n : toks[i].type = "LPAREN"})
    - Cardinality({i \in 1..n : toks[i].type = "RPAREN"})

\* The text has an error somewhere: a character that starts no token, a
\* parenthesis without its partner, a token where an operand must start
\* that cannot start one, or an operand right after an operand.
IllFormed(t) ==
  \/ \E i \in 1..Len(t) : t[i] \notin TokenStart \cup Whitespace
  \/ LET toks == Lexed(t)
     IN  \/ ParenDepth(toks, Len(toks)) # 0
         \/ \E n \in 1..Len(toks) : ParenDepth(toks, n) < 0
         \/ \E i \in 1..Len(toks) :
              OperandExpectedAt(toks, i) /\ toks[i].type \notin FactorStart
         \/ \E i \in 1..(Len(toks) - 1) :
              /\ toks[i].type \in {"INTEGER", "RPAREN"}
              /\ toks[i + 1].type \in {"INTEGER", "IDENTIFIER", "LPAREN"}

\* C27: an evaluate call that failed in the lexer or the parser has invoked
\* no registry function and returned no number, and every text with a lex
\* or parse error anywhere, also after complete function calls ("f() + )",
\* "f() @", "f() )"), fails that way.
C27_NoCallBeforeParsed ==
  /\ pc \in {"newFailed", "parseFailed"} =>
       calls = <<>> /\ result = NoValue /\ Failed(error)
  /\ (EvaluateEnded /\ IllFormed(text)) =>
       /\ pc \in {"newFailed", "parseFailed"}
       /\ calls = <<>>
  /\ calls # <<>> => ~IllFormed(text) /\ ast = ParseExpression(text).ast

\* evaluate("f() @", registry) with the test registry has failed on the
\* "@" without invoking f.
C27_Witness ==
  /\ text = <<"f", "(", ")", " ", "@">>
  /\ given = TestRegistry
  /\ pc = "parseFailed"
  /\ error.kind = "Invalid character at position"
  /\ error.position = 4
  /\ calls = <<>>

(***************************************************************************)
(* C28: the lookup and the arguments.                                      *)
(***************************************************************************)
\* C28: a FunctionCall whose name the registry does not hold fails with the
\* unknown-function error for that name and evaluates none of its
\* arguments: no function is invoked for it, and a failure in an argument
\* ("h(1/0)", "h(g())") is not what is reported.
C28_LookupBeforeArguments ==
  Evaluated =>
    \A s \in Subtrees(ast) :
      (IsCall(s) /\ s.name \notin DOMAIN functions)
        => Evaluate(s, functions) = Raise(UnknownFunction(s.name), <<>>)

(***************************************************************************)
(* C29: what is wrapped with a function's name.                            *)
(***************************************************************************)
\* What the registry functions throw themselves.
HostFailures ==
  {"Test error", "Cannot convert undefined or null to object",
   "Object.prototype.toLocaleString called on null or undefined",
   "func is not a function"}

\* The call node of a registered function whose argument fails lets that
\* failure through as it was raised.
ArgumentFailureUnchanged(node, registry) ==
  LET k == FirstFailing(node, registry)
  IN  (IsCall(node) /\ Lookup(registry, node.name) # Undefined /\ k > 0)
        => /\ ~Evaluate(node, registry).ok
           /\ Evaluate(node, registry).error
                = Evaluate(node.arguments[k], registry).error

\* C29: a failure raised while an argument of a call is evaluated (division
\* by zero, unknown function, the wrapped failure of a nested call) is the
\* failure of the enclosing call, unchanged.  An error that names a
\* function is therefore wrapped once: it names a call whose arguments all
\* evaluated and whose own invocation, the last one made, threw what the
\* error quotes ("s(s(g()))" names g, never s).
C29_WrappedOnce ==
  Evaluated =>
    /\ \A s \in Subtrees(ast) : ArgumentFailureUnchanged(s, functions)
    /\ (pc = "evalFailed" /\ error.kind = "Error calling function") =>
         /\ error.cause \in HostFailures
         /\ \E s \in Subtrees(ast) :
              /\ IsCall(s) /\ s.name = error.name
              /\ FirstFailing(s, functions) = 0
              /\ Evaluate(s, functions).error = error
         /\ IsCallable(Lookup(functions, error.name)) =>
              /\ calls # <<>>
              /\ error.name = calls[Len(calls)].name
              /\ LET last == calls[Len(calls)]
                     thrown == Invoke(Lookup(functions, last.name), last.args)
                 IN  thrown.threw /\ thrown.cause = error.cause
    /\ (pc = "evalFailed" /\ error.kind # "Error calling function") =>
         \A i \in 1..Len(calls) :
           ~Invoke(Lookup(functions, calls[i].name), calls[i].args).threw

\* "s(s(g()))" on the test registry has failed with the error of g, wrapped
\* with the name of g; s was never invoked.
C29_Witness ==
  /\ text = <<"s", "(", "s", "(", "g", "(", ")", ")", ")">>
  /\ pc = "evalFailed"
  /\ functions = TestRegistry
  /\ error = ErrorCallingFunction(<<"g">>, "Test error")
  /\ calls = <<[name |-> <<"g">>, args |-> <<>>]>>

(***************************************************************************)
(* C30: one token of lookahead.                                            *)
(***************************************************************************)
\* Texts put after a token to see whether they are read.
Continuations ==
  {<<>>, <<"@">>, <<" ", "@">>, <<" ", "1">>, <<")">>, <<" ", "+", " ", "1">>,
   <<"(", ")">>, <<",">>, <<" ", "x">>}

\* The error of the parser on the first n characters of the text followed
\* by more.
ErrorWith(n, more) == ParseExpression(SubSeq(text, 1, n) \o more).parser.error

LexError(e) == Failed(e) /\ e.kind = "Invalid character at position"

\* A Parser was constructed: its fields are there, whatever parse() did.
ParserConstructed ==
  pc \in {"parser", "parsed", "done", "evalFailed", "parseFailed"}

\* C30 as stated: from construction on the cursor of the lexer is always
\* exactly at the end of the parser's current token, and a parse error
\* thrown at a current token other than EOF is the error of every text that
\* is the same up to the end of that token ("1 ) @" fails with the trailing
\* ")", "1 @" with the lexer's error).  After eat called getNextToken on
\* "1 @" and it threw, the current token is still the INTEGER that ends at
\* offset 1 and the cursor is at offset 2, on the "@".
C30_CursorAtTokenEnd ==
  /\ ParserConstructed =>
       /\ TokenOfText(text, parser.currentToken)
       /\ parser.pos = TokenEnd(text, parser.currentToken)
  /\ (pc = "parseFailed" /\ ~LexError(parser.error)
      /\ parser.currentToken.type # "EOF") =>
       \A more \in Continuations : ErrorWith(parser.pos, more) = parser.error
  /\ (AfterParse /\ text = <<"1", " ", ")", " ", "@">>) =>
       parser.error = UnexpectedToken(2, "RPAREN")
  /\ (AfterParse /\ text = <<"1", " ", "@">>) =>
       parser.error = InvalidCharacter(2, "@")

\* C30, amended: a Parser none of whose getNextToken calls threw holds the
\* token of the text that ends at the cursor of its lexer; the first one
\* from construction on.  So does a Parser that threw a parse error, and
\* that error, thrown at a current token other than EOF, is the error of
\* every text that is the same up to the end of that token ("1 ) @" fails
\* with the trailing ")").  A Parser that threw the lexer's error, from its
\* constructor or later, has its cursor on the offending character, the
\* first one after the current token that is no whitespace, the current
\* token being what it was, and that error is the error of every text that
\* is the same up to that character ("1 @").
C30_OneTokenLookahead ==
  /\ (\/ pc \in {"parser", "parsed", "done", "evalFailed"}
      \/ pc = "parseFailed" /\ ~LexError(parser.error)) =>
       /\ TokenOfText(text, parser.currentToken)
       /\ parser.pos = TokenEnd(text, parser.currentToken)
  /\ (pc = "parser") =>
       parser.currentToken.position = NextVisible(text, 0)
  /\ (pc = "parseFailed" /\ ~LexError(parser.error)
      /\ parser.currentToken.type # "EOF") =>
       \A more \in Continuations : ErrorWith(parser.pos, more) = parser.error
  /\ (pc = "parseFailed" /\ LexError(parser.error)) =>
       /\ parser.pos = parser.error.position
       /\ parser.pos = NextVisible(text, TokenEnd(text, parser.currentToken))
  /\ (pc = "newFailed") =>
       /\ LexError(parser.error)
       /\ parser.pos = parser.error.position
       /\ parser.pos = NextVisible(text, 0)
  /\ (pc \in {"newFailed", "parseFailed"} /\ LexError(parser.error)) =>
       \A more \in Continuations :
         ErrorWith(parser.pos + 1, more) = parser.error
  /\ (AfterParse /\ text = <<"1", " ", ")", " ", "@">>) =>
       parser.error = UnexpectedToken(2, "RPAREN")
  /\ (AfterParse /\ text = <<"1", " ", "@">>) =>
       parser.error = InvalidCharacter(2, "@")

\* "1 ) @" has failed with the error about the ")" at offset 2, the cursor
\* of the lexer right after it: the "@" was not read.
C30_Witness ==
  /\ text = <<"1", " ", ")", " ", "@">>
  /\ pc = "parseFailed"
  /\ parser.error = UnexpectedToken(2, "RPAREN")
  /\ parser.currentToken = Token("RPAREN", ")", 2)
  /\ parser.pos = 3

====
